---------------------------- MODULE Spec2Model ----------------------------
(***************************************************************************)
(* Model of the OpenAPI-to-request pipeline of raycast-openapi-fetcher:    *)
(* src/lib/openapi-parser.ts (endpoint extraction, parameter filters,      *)
(* content-type resolution) and src/lib/curl-generator.ts (generateCurl,   *)
(* generateExampleBody, generateCompactCurl).                              *)
(*                                                                         *)
(* A JavaScript string is a sequence of one-character strings, so that     *)
(* String.replace, encodeURIComponent, JSON.stringify and the regular      *)
(* expression of generateCompactCurl are computed character by character.  *)
(***************************************************************************)
EXTENDS Integers, Sequences, FiniteSets, TLC

VARIABLES op, endpoint, options, spec, parts, out, previous, headers,
          form, fetched, history, toast,
          specs, cache, tokens, clock, calls, hook

\* the state of a request form and of what it reaches: the fetch calls it
\* made, the stored request history, the toast it shows
liveVars == <<form, fetched, history, toast>>

\* LocalStorage besides the request history (the list of spec records, the
\* cached documents, the token items), the clock behind Date.now(), the
\* asynchronous calls in flight and the state of the useOpenApiSpec hook
storeVars == <<specs, cache, tokens, clock, calls, hook>>

vars == <<op, endpoint, options, spec, parts, out, previous, headers, liveVars, storeVars>>

(***************************************************************************)
(* Bounds of the model                                                     *)
(***************************************************************************)
\* longest `parameters` array of an endpoint
MaxParams == 2
\* most properties of a request-body schema
MaxProps == 1
\* most path templates of a spec document
MaxPaths == 2
\* most entries of a headers record given to maskSensitiveHeaders
MaxHeaders == 2
\* most asynchronous storage calls in flight at once
MaxCalls == 2
\* most storage calls made in one behaviour
MaxOps == 3

(***************************************************************************)
(* JavaScript values                                                       *)
(***************************************************************************)
\* the value `undefined` where a string is expected
Undefined == <<"undefined">>

RECURSIVE Flatten(_)
\* concatenation of a sequence of strings
Flatten(ss) == IF ss = <<>> THEN <<>> ELSE Head(ss) \o Flatten(Tail(ss))

RECURSIVE Join(_, _)
\* Array.prototype.join(sep)
Join(ss, sep) ==
  IF ss = <<>> THEN <<>>
  ELSE IF Len(ss) = 1 THEN ss[1]
  ELSE ss[1] \o sep \o Join(Tail(ss), sep)

\* s.startsWith(p) at position i (1-based)
MatchAt(s, p, i) == i + Len(p) - 1 <= Len(s) /\ SubSeq(s, i, i + Len(p) - 1) = p

\* s.indexOf(p), 1-based, 0 when absent
IndexOf(s, p) ==
  LET hits == {i \in 1..(Len(s) + 1) : MatchAt(s, p, i)}
  IN IF hits = {} THEN 0 ELSE CHOOSE i \in hits : \A j \in hits : i <= j

\* s.includes(p)
Includes(s, p) == IndexOf(s, p) # 0

\* String.prototype.replace(pattern: string, replacement): only the first
\* occurrence of the pattern is replaced (the replacement holds no `$`)
ReplaceFirst(s, pat, rep) ==
  LET i == IndexOf(s, pat)
  IN IF i = 0 THEN s
     ELSE SubSeq(s, 1, i - 1) \o rep \o SubSeq(s, i + Len(pat), Len(s))

RECURSIVE ReplaceAllChar(_, _, _)
\* String.prototype.replace(/c/g, rep) for a one-character pattern
ReplaceAllChar(s, c, rep) ==
  IF s = <<>> THEN <<>>
  ELSE (IF Head(s) = c THEN rep ELSE <<Head(s)>>) \o ReplaceAllChar(Tail(s), c, rep)

\* characters encodeURIComponent leaves alone: A-Z a-z 0-9 - _ . ! ~ * ' ( )
Unreserved ==
  {"a", "b", "c", "d", "e", "f", "g", "h", "i", "j", "k", "l", "m", "n", "o",
   "p", "q", "r", "s", "t", "u", "v", "w", "x", "y", "z",
   "A", "B", "C", "D", "E", "F", "G", "H", "I", "J", "K", "L", "M", "N", "O",
   "P", "Q", "R", "S", "T", "U", "V", "W", "X", "Y", "Z",
   "0", "1", "2", "3", "4", "5", "6", "7", "8", "9",
   "-", "_", ".", "!", "~", "*", "'", "(", ")"}

\* the percent-escape of the other ASCII characters the model uses
PercentCode ==
  [c \in {" ", "\"", "#", "$", "%", "&", "+", ",", "/", ":", ";", "<", "=",
          ">", "?", "@", "[", "\\", "]", "^", "{", "|", "}", "\n"} |->
     CASE c = " "  -> <<"%", "2", "0">>
       [] c = "\"" -> <<"%", "2", "2">>
       [] c = "#"  -> <<"%", "2", "3">>
       [] c = "$"  -> <<"%", "2", "4">>
       [] c = "%"  -> <<"%", "2", "5">>
       [] c = "&"  -> <<"%", "2", "6">>
       [] c = "+"  -> <<"%", "2", "B">>
       [] c = ","  -> <<"%", "2", "C">>
       [] c = "/"  -> <<"%", "2", "F">>
       [] c = ":"  -> <<"%", "3", "A">>
       [] c = ";"  -> <<"%", "3", "B">>
       [] c = "<"  -> <<"%", "3", "C">>
       [] c = "="  -> <<"%", "3", "D">>
       [] c = ">"  -> <<"%", "3", "E">>
       [] c = "?"  -> <<"%", "3", "F">>
       [] c = "@"  -> <<"%", "4", "0">>
       [] c = "["  -> <<"%", "5", "B">>
       [] c = "\\" -> <<"%", "5", "C">>
       [] c = "]"  -> <<"%", "5", "D">>
       [] c = "^"  -> <<"%", "5", "E">>
       [] c = "{"  -> <<"%", "7", "B">>
       [] c = "|"  -> <<"%", "7", "C">>
       [] c = "}"  -> <<"%", "7", "D">>
       [] c = "\n" -> <<"%", "0", "A">>]

RECURSIVE encodeURIComponent(_)
\* encodeURIComponent(s)
encodeURIComponent(s) ==
  IF s = <<>> THEN <<>>
  ELSE (IF Head(s) \in Unreserved THEN <<Head(s)>> ELSE PercentCode[Head(s)])
       \o encodeURIComponent(Tail(s))

\* String.prototype.toUpperCase on the letters of the method keys
UpperChar ==
  [c \in {"a", "c", "d", "e", "g", "h", "i", "l", "n", "o", "p", "s", "t", "u"} |->
     CASE c = "a" -> "A" [] c = "c" -> "C" [] c = "d" -> "D" [] c = "e" -> "E"
       [] c = "g" -> "G" [] c = "h" -> "H" [] c = "i" -> "I" [] c = "l" -> "L"
       [] c = "n" -> "N" [] c = "o" -> "O" [] c = "p" -> "P" [] c = "s" -> "S"
       [] c = "t" -> "T" [] c = "u" -> "U"]

RECURSIVE toUpperCase(_)
\* method.toUpperCase()
toUpperCase(s) ==
  IF s = <<>> THEN <<>>
  ELSE <<IF Head(s) \in DOMAIN UpperChar THEN UpperChar[Head(s)] ELSE Head(s)>>
       \o toUpperCase(Tail(s))

\* the value `null` where a string is expected
Null == <<"null">>

\* truthiness of a string | null | undefined
Truthy(s) == s # Undefined /\ s # Null /\ s # <<>>

\* a || b
OrElse(a, b) == IF Truthy(a) THEN a ELSE b

(***************************************************************************)
(* String constants of the source                                          *)
(***************************************************************************)
AppJson == <<"a", "p", "p", "l", "i", "c", "a", "t", "i", "o", "n", "/", "j", "s", "o", "n">>
AppMergePatch == <<"a", "p", "p", "l", "i", "c", "a", "t", "i", "o", "n", "/", "m", "e", "r", "g", "e", "-", "p", "a", "t", "c", "h", "+", "j", "s", "o", "n">>
AppJsonPatch == <<"a", "p", "p", "l", "i", "c", "a", "t", "i", "o", "n", "/", "j", "s", "o", "n", "-", "p", "a", "t", "c", "h", "+", "j", "s", "o", "n">>
TextJson == <<"t", "e", "x", "t", "/", "j", "s", "o", "n">>
XApiKey == <<"X", "-", "A", "P", "I", "-", "K", "e", "y">>
CurlWord == <<"c", "u", "r", "l">>
DashX == <<"-", "X", " ">>
DashH == <<"-", "H", " ", "\"">>
DashD == <<"-", "d", " ", "'">>
AuthBearer == <<"A", "u", "t", "h", "o", "r", "i", "z", "a", "t", "i", "o", "n", ":", " ", "B", "e", "a", "r", "e", "r", " ">>
AuthBasic == <<"A", "u", "t", "h", "o", "r", "i", "z", "a", "t", "i", "o", "n", ":", " ", "B", "a", "s", "i", "c", " ">>
YourToken == <<"<", "Y", "O", "U", "R", "_", "T", "O", "K", "E", "N", ">">>
ContentTypeColon == <<"C", "o", "n", "t", "e", "n", "t", "-", "T", "y", "p", "e", ":", " ">>
RequestBodyPlaceholder == <<"<", "R", "E", "Q", "U", "E", "S", "T", "_", "B", "O", "D", "Y", ">">>
\* the separator of parts.join(" \\\n  ")
PartSeparator == <<" ", "\\", "\n", " ", " ">>
\* the replacement "'\\''" of a single quote
EscapedQuote == <<"'", "\\", "'", "'">>
EmptyObjectText == <<"{", "}">>
TString == <<"s", "t", "r", "i", "n", "g">>
TNumber == <<"n", "u", "m", "b", "e", "r">>
TInteger == <<"i", "n", "t", "e", "g", "e", "r">>
TBoolean == <<"b", "o", "o", "l", "e", "a", "n">>
TArray == <<"a", "r", "r", "a", "y">>
TObject == <<"o", "b", "j", "e", "c", "t">>
FEmail == <<"e", "m", "a", "i", "l">>
FDate == <<"d", "a", "t", "e">>
FDateTime == <<"d", "a", "t", "e", "-", "t", "i", "m", "e">>
FUuid == <<"u", "u", "i", "d">>
GET == <<"G", "E", "T">>
POST == <<"P", "O", "S", "T">>
PUT == <<"P", "U", "T">>
PATCH == <<"P", "A", "T", "C", "H">>
DELETE == <<"D", "E", "L", "E", "T", "E">>

\* `{${name}}`
Brace(name) == <<"{">> \o name \o <<"}">>

\* `"${s}"`
DQuote(s) == <<"\"">> \o s \o <<"\"">>

(***************************************************************************)
(* JSON values: an example or default of a schema is undefined, a string,  *)
(* or another JSON literal (number, boolean, null, [] or {}) kept as its   *)
(* JSON text.                                                              *)
(***************************************************************************)
JUndef == [k |-> "undef", s |-> <<>>]
JStr(s) == [k |-> "str", s |-> s]
JLit(s) == [k |-> "lit", s |-> s]
\* the JSON value null
JNull == JLit(<<"n", "u", "l", "l">>)

RECURSIVE JsonEscape(_)
\* the body of a JSON string literal: " and \ escaped, newline as \n
JsonEscape(s) ==
  IF s = <<>> THEN <<>>
  ELSE (CASE Head(s) = "\"" -> <<"\\", "\"">>
          [] Head(s) = "\\" -> <<"\\", "\\">>
          [] Head(s) = "\n" -> <<"\\", "n">>
          [] OTHER -> <<Head(s)>>)
       \o JsonEscape(Tail(s))

\* JSON.stringify of one value
JsonValue(v) == IF v.k = "str" THEN DQuote(JsonEscape(v.s)) ELSE v.s

RECURSIVE JsonMembers(_)
\* the members of a pretty-printed object, each indented by two spaces
JsonMembers(entries) ==
  IF entries = <<>> THEN <<>>
  ELSE <<<<" ", " ">> \o DQuote(JsonEscape(Head(entries).key)) \o <<":", " ">>
         \o JsonValue(Head(entries).value)>>
       \o JsonMembers(Tail(entries))

\* JSON.stringify(obj, null, 2) of an object given as its entries in order
JsonStringify2(entries) ==
  IF entries = <<>> THEN EmptyObjectText
  ELSE <<"{", "\n">> \o Join(JsonMembers(entries), <<",", "\n">>) \o <<"\n", "}">>

(***************************************************************************)
(* src/lib/openapi-parser.ts: parameter filters and content type           *)
(*                                                                         *)
(* Parameter    [name, in, required]                                       *)
(* RequestBody  [present, required, hasContent, content], content being    *)
(*              the entries <<[key, schema]>> of the content map in order  *)
(* Schema       [present, type, hasProps, props], props being the entries  *)
(*              <<[key, type, format, example, default]>> of `properties`  *)
(* ParsedEndpoint [path, method, tags, parameters, requestBody, hasAuth]   *)
(***************************************************************************)
\* endpoint.parameters.filter((p) => p.in === "path")
getPathParams(e) == SelectSeq(e.parameters, LAMBDA p : p.in = "path")

\* endpoint.parameters.filter((p) => p.in === "query")
getQueryParams(e) == SelectSeq(e.parameters, LAMBDA p : p.in = "query")

\* getHeaderParams as if it selected the cookie parameters too
getHeaderParams_WithCookies(e) ==
  SelectSeq(e.parameters, LAMBDA p : p.in \in {"header", "cookie"})

\* endpoint.parameters.filter((p) => p.in === "header")
getHeaderParams(e) == SelectSeq(e.parameters, LAMBDA p : p.in = "header")

\* Object.keys(content)
ContentKeys(content) == [i \in 1..Len(content) |-> content[i].key]

\* contentTypes.includes(t)
HasKey(content, t) == \E i \in 1..Len(content) : content[i].key = t

\* the order in which getRequestBodyContentType prefers content types
preferredTypes == <<AppJson, AppMergePatch, AppJsonPatch, TextJson>>

RECURSIVE FirstPreferred(_, _)
\* for (const preferred of preferredTypes) if (contentTypes.includes(preferred)) return preferred
FirstPreferred(prefs, content) ==
  IF prefs = <<>> THEN Null
  ELSE IF HasKey(content, Head(prefs)) THEN Head(prefs)
  ELSE FirstPreferred(Tail(prefs), content)

\* getSchemaTypeString(schema) of a schema given by its type and format
\* (schemas of the model have neither `items` nor `enum`)
getSchemaTypeString(type, format) ==
  IF format # Undefined
  THEN (IF type = Undefined THEN TString ELSE type) \o <<"(">> \o format \o <<")">>
  ELSE IF type = Undefined THEN TObject ELSE type

\* the name of the BodyParameter that stands for a whole body
BodySentinel == <<"(", "b", "o", "d", "y", ")">>

\* a ?? b
Coalesce(a, b) == IF a = JUndef \/ a = JNull THEN b ELSE a

\* the entry of the content map under a key, or no entry
MediaTypeAt(content, key) ==
  IF HasKey(content, key)
  THEN <<content[CHOOSE i \in 1..Len(content) : content[i].key = key]>>
  ELSE <<>>

\* content["application/json"] || content["application/merge-patch+json"]
\*   || Object.values(content)[0]: the chosen entry, or no entry
SelectedMediaType(content) ==
  IF MediaTypeAt(content, AppJson) # <<>> THEN MediaTypeAt(content, AppJson)
  ELSE IF MediaTypeAt(content, AppMergePatch) # <<>> THEN MediaTypeAt(content, AppMergePatch)
  ELSE IF content # <<>> THEN <<content[1]>> ELSE <<>>

\* a BodyParameter
BodyParameter(name, type, required, example) ==
  [name |-> name, type |-> type, required |-> required, example |-> example]

\* requiredFields.includes(name)
ListIncludes(list, x) == \E i \in 1..Len(list) : list[i] = x

\* the BodyParameter of one property, as if `required` came from the request body
PropertyParam_BodyRequired(e, schema, prop) ==
  BodyParameter(prop.key, getSchemaTypeString(prop.type, prop.format),
                e.requestBody.required, Coalesce(prop.example, prop.default))

\* the BodyParameter Object.entries(properties).map gives one property
PropertyParam(e, schema, prop) ==
  BodyParameter(prop.key, getSchemaTypeString(prop.type, prop.format),
                ListIncludes(schema.required, prop.key),
                Coalesce(prop.example, prop.default))

\* getBodyParams(endpoint)
getBodyParams(e) ==
  IF ~e.requestBody.present \/ ~e.requestBody.hasContent THEN <<>>
  ELSE LET mediaType == SelectedMediaType(e.requestBody.content)
       IN IF mediaType = <<>> THEN <<>>
          ELSE LET schema == mediaType[1].schema
               IN IF ~schema.present THEN <<>>
                  ELSE IF ~schema.hasProps
                  THEN (IF schema.type # Undefined
                        THEN <<BodyParameter(BodySentinel,
                                             getSchemaTypeString(schema.type, Undefined),
                                             e.requestBody.required, JUndef)>>
                        ELSE <<>>)
                  ELSE [i \in 1..Len(schema.props) |-> PropertyParam(e, schema, schema.props[i])]

\* getRequestBodyContentType as if every declared body were application/json
getRequestBodyContentType_JsonOnly(e) ==
  IF ~e.requestBody.present \/ ~e.requestBody.hasContent THEN Null ELSE AppJson

\* getRequestBodyContentType(endpoint): string | null
getRequestBodyContentType(e) ==
  IF ~e.requestBody.present \/ ~e.requestBody.hasContent THEN Null
  ELSE LET content == e.requestBody.content
           pref == FirstPreferred(preferredTypes, content)
       IN IF pref # Null THEN pref
          ELSE IF content = <<>> THEN Null
          ELSE OrElse(content[1].key, Null)

(***************************************************************************)
(* src/lib/curl-generator.ts                                               *)
(*                                                                         *)
(* CurlOptions [baseUrl, authToken, authType, authHeader,                  *)
(*              includeExampleBody, paramValues, bodyJson]                 *)
(***************************************************************************)
\* paramValues[name]
Lookup(paramValues, name) ==
  IF name \in DOMAIN paramValues THEN paramValues[name] ELSE Undefined

\* getDefaultValue(type, format)
getDefaultValue(type, format) ==
  CASE type = TString ->
         (CASE format = FEmail -> JStr(<<"u", "s", "e", "r", "@", "e", "x", "a", "m", "p", "l", "e", ".", "c", "o", "m">>)
            [] format = FDate -> JStr(<<"2", "0", "2", "4", "-", "0", "1", "-", "0", "1">>)
            [] format = FDateTime -> JStr(<<"2", "0", "2", "4", "-", "0", "1", "-", "0", "1", "T", "0", "0", ":", "0", "0", ":", "0", "0", "Z">>)
            [] format = FUuid -> JStr(<<"0", "0", "0", "0", "0", "0", "0", "0", "-", "0", "0", "0", "0", "-", "0", "0", "0", "0", "-", "0", "0", "0", "0", "-", "0", "0", "0", "0", "0", "0", "0", "0", "0", "0", "0", "0">>)
            [] OTHER -> JStr(TString))
    [] type \in {TNumber, TInteger} -> JLit(<<"0">>)
    [] type = TBoolean -> JLit(<<"t", "r", "u", "e">>)
    [] type = TArray -> JLit(<<"[", "]">>)
    [] type = TObject -> JLit(EmptyObjectText)
    [] OTHER -> JLit(<<"n", "u", "l", "l">>)

\* the value generateExampleBody gives one property
exampleValue(prop) ==
  IF prop.example # JUndef THEN prop.example
  ELSE IF prop.default # JUndef THEN prop.default
  ELSE getDefaultValue(prop.type, prop.format)

\* content["application/json"]: the schema of that entry, absent when there is none
JsonContentSchema(content) ==
  IF HasKey(content, AppJson)
  THEN content[CHOOSE i \in 1..Len(content) : content[i].key = AppJson].schema
  ELSE [present |-> FALSE, type |-> Undefined, hasProps |-> FALSE, props |-> <<>>,
        required |-> <<>>]

\* generateExampleBody(endpoint)
generateExampleBody(e) ==
  IF ~e.requestBody.present \/ ~e.requestBody.hasContent THEN EmptyObjectText
  ELSE LET schema == JsonContentSchema(e.requestBody.content)
       IN IF ~schema.present THEN EmptyObjectText
          ELSE IF schema.type = TObject /\ schema.hasProps
          THEN JsonStringify2([i \in 1..Len(schema.props) |->
                 [key |-> schema.props[i].key, value |-> exampleValue(schema.props[i])]])
          ELSE EmptyObjectText

RECURSIVE substitutePathParams(_, _, _)
\* the loop over pathParams: url = url.replace(`{name}`, ...)
substitutePathParams(url, pathParams, paramValues) ==
  IF pathParams = <<>> THEN url
  ELSE LET param == Head(pathParams)
           value == Lookup(paramValues, param.name)
           next == IF Truthy(value)
                   THEN ReplaceFirst(url, Brace(param.name), encodeURIComponent(value))
                   ELSE ReplaceFirst(url, Brace(param.name), Brace(param.name))
       IN substitutePathParams(next, Tail(pathParams), paramValues)

RECURSIVE queryPartsOf_NoOmission(_, _)
\* queryPartsOf as if an optional parameter without a value got a placeholder too
queryPartsOf_NoOmission(queryParams, paramValues) ==
  IF queryParams = <<>> THEN <<>>
  ELSE LET param == Head(queryParams)
           value == Lookup(paramValues, param.name)
       IN <<param.name \o <<"=">>
            \o (IF Truthy(value) THEN encodeURIComponent(value) ELSE Brace(param.name))>>
          \o queryPartsOf_NoOmission(Tail(queryParams), paramValues)

RECURSIVE queryPartsOf(_, _)
\* the loop over queryParams filling queryParts
queryPartsOf(queryParams, paramValues) ==
  IF queryParams = <<>> THEN <<>>
  ELSE LET param == Head(queryParams)
           value == Lookup(paramValues, param.name)
           here == IF Truthy(value)
                   THEN <<param.name \o <<"=">> \o encodeURIComponent(value)>>
                   ELSE IF param.required
                   THEN <<param.name \o <<"=">> \o Brace(param.name)>>
                   ELSE <<>>
       IN here \o queryPartsOf(Tail(queryParams), paramValues)

\* the url of generateCurl: base url, path with its parameters, query string
buildUrl(e, o) ==
  LET withPath == substitutePathParams(o.baseUrl \o e.path, getPathParams(e), o.paramValues)
      queryParts == queryPartsOf(getQueryParams(e), o.paramValues)
  IN IF Len(queryParts) > 0
     THEN withPath \o <<"?">> \o Join(queryParts, <<"&">>)
     ELSE withPath

\* authParts as if the api-key header name were always X-API-Key
authParts_DefaultHeaderOnly(e, o) ==
  IF Truthy(o.authToken)
  THEN CASE o.authType \in {"bearer", "undefined"} -> <<DashH \o AuthBearer \o o.authToken \o <<"\"">>>>
         [] o.authType = "api-key" -> <<DashH \o XApiKey \o <<":", " ">> \o o.authToken \o <<"\"">>>>
         [] o.authType = "basic" -> <<DashH \o AuthBasic \o o.authToken \o <<"\"">>>>
  ELSE IF e.hasAuth
  THEN <<DashH \o AuthBearer \o YourToken \o <<"\"">>>>
  ELSE <<>>

\* the authentication header pushed by generateCurl, if any
authParts(e, o) ==
  LET authType == IF o.authType = "undefined" THEN "bearer" ELSE o.authType
      authHeader == IF o.authHeader = Undefined THEN XApiKey ELSE o.authHeader
  IN IF Truthy(o.authToken)
     THEN CASE authType = "bearer" -> <<DashH \o AuthBearer \o o.authToken \o <<"\"">>>>
            [] authType = "api-key" -> <<DashH \o authHeader \o <<":", " ">> \o o.authToken \o <<"\"">>>>
            [] authType = "basic" -> <<DashH \o AuthBasic \o o.authToken \o <<"\"">>>>
            [] OTHER -> <<>>
     ELSE IF e.hasAuth
     THEN <<DashH \o AuthBearer \o YourToken \o <<"\"">>>>
     ELSE <<>>

RECURSIVE headerPartsOf(_, _)
\* the loop over headerParams pushing -H "name: value"
headerPartsOf(headerParams, paramValues) ==
  IF headerParams = <<>> THEN <<>>
  ELSE LET param == Head(headerParams)
           value == Lookup(paramValues, param.name)
           here == IF Truthy(value)
                   THEN <<DashH \o param.name \o <<":", " ">> \o value \o <<"\"">>>>
                   ELSE IF param.required
                   THEN <<DashH \o param.name \o <<":", " ">> \o Brace(param.name) \o <<"\"">>>>
                   ELSE <<>>
       IN here \o headerPartsOf(Tail(headerParams), paramValues)

\* endpoint.requestBody && ["POST", "PUT", "PATCH"].includes(endpoint.method)
hasBody(e) == e.requestBody.present /\ e.method \in {POST, PUT, PATCH}

\* bodyParts as if the example body were preferred to bodyJson
bodyParts_ExampleFirst(e, o) ==
  IF hasBody(e)
  THEN <<DashH \o ContentTypeColon \o OrElse(getRequestBodyContentType(e), AppJson) \o <<"\"">>>>
       \o (IF o.includeExampleBody
           THEN <<DashD \o generateExampleBody(e) \o <<"'">>>>
           ELSE IF Truthy(o.bodyJson)
           THEN <<DashD \o ReplaceAllChar(o.bodyJson, "'", EscapedQuote) \o <<"'">>>>
           ELSE <<DashD \o RequestBodyPlaceholder \o <<"'">>>>)
  ELSE <<>>

\* the Content-Type header and the -d argument pushed by generateCurl
bodyParts(e, o) ==
  IF hasBody(e)
  THEN LET contentType == OrElse(getRequestBodyContentType(e), AppJson)
       IN <<DashH \o ContentTypeColon \o contentType \o <<"\"">>>>
          \o (IF Truthy(o.bodyJson)
              THEN <<DashD \o ReplaceAllChar(o.bodyJson, "'", EscapedQuote) \o <<"'">>>>
              ELSE IF o.includeExampleBody
              THEN <<DashD \o generateExampleBody(e) \o <<"'">>>>
              ELSE <<DashD \o RequestBodyPlaceholder \o <<"'">>>>)
  ELSE <<>>

\* the array `parts` of generateCurl when it is joined
curlParts(e, o) ==
  <<CurlWord>>
  \o (IF e.method # GET THEN <<DashX \o e.method>> ELSE <<>>)
  \o authParts(e, o)
  \o headerPartsOf(getHeaderParams(e), o.paramValues)
  \o bodyParts(e, o)
  \o <<DQuote(buildUrl(e, o))>>

\* generateCurl(endpoint, options)
generateCurl(e, o) == Join(curlParts(e, o), PartSeparator)

\* \s of a JavaScript regular expression, on the characters of the model
Whitespace == {" ", "\n", "\t", "\r"}

\* position j starts the `\\\n` of the pattern: a backslash, then a newline
BackslashNewlineAt(s, j) == j + 1 <= Len(s) /\ s[j] = "\\" /\ s[j + 1] = "\n"

\* position p lies in a match of /\s*\\\n\s*/g: \s* is greedy, so a match is a
\* backslash-newline with the whole run of whitespace before it and the whole
\* run of whitespace after it
InCollapsedMatch(s, p) ==
  \E j \in 1..Len(s) :
    /\ BackslashNewlineAt(s, j)
    /\ \/ p \in {j, j + 1}
       \/ p < j /\ \A q \in p..(j - 1) : s[q] \in Whitespace
       \/ p > j + 1 /\ \A q \in (j + 2)..p : s[q] \in Whitespace

\* s.replace(/\s*\\\n\s*/g, " "): every match holds exactly one backslash-newline,
\* so each match is replaced by the one space put at its backslash
CollapseContinuations(s) ==
  LET kept == SelectSeq([p \in 1..Len(s) |-> p],
                        LAMBDA p : BackslashNewlineAt(s, p) \/ ~InCollapsedMatch(s, p))
  IN [k \in 1..Len(kept) |-> IF BackslashNewlineAt(s, kept[k]) THEN " " ELSE s[kept[k]]]

\* generateCompactCurl(endpoint, options)
generateCompactCurl(e, o) == CollapseContinuations(generateCurl(e, o))

(***************************************************************************)
(* src/lib/openapi-parser.ts: endpoint extraction                          *)
(*                                                                         *)
(* OpenAPISpec [hasPaths, paths], paths being the entries <<[path, item]>> *)
(* of spec.paths in order; a PathItem is a function from the method keys   *)
(* it defines to Operation [tags, parameters, requestBody, security], and  *)
(* security is [present, reqs].                                            *)
(***************************************************************************)
\* const HTTP_METHODS, without "head"
HTTP_METHODS_NoHead ==
  << <<"g", "e", "t">>, <<"p", "o", "s", "t">>, <<"p", "u", "t">>,
     <<"p", "a", "t", "c", "h">>, <<"d", "e", "l", "e", "t", "e">>,
     <<"o", "p", "t", "i", "o", "n", "s">> >>

\* const HTTP_METHODS
HTTP_METHODS ==
  << <<"g", "e", "t">>, <<"p", "o", "s", "t">>, <<"p", "u", "t">>,
     <<"p", "a", "t", "c", "h">>, <<"d", "e", "l", "e", "t", "e">>,
     <<"o", "p", "t", "i", "o", "n", "s">>, <<"h", "e", "a", "d">> >>

\* parseOperation(path, method, operation)
parseOperation(path, method, operation) ==
  [path |-> path,
   method |-> method,
   tags |-> operation.tags,
   parameters |-> operation.parameters,
   requestBody |-> operation.requestBody,
   hasAuth |-> operation.security.present /\ Len(operation.security.reqs) > 0]

RECURSIVE OperationsOf(_, _, _)
\* for (const method of HTTP_METHODS) if (pathItem[method]) endpoints.push(...)
OperationsOf(path, item, methods) ==
  IF methods = <<>> THEN <<>>
  ELSE (IF Head(methods) \in DOMAIN item
        THEN <<parseOperation(path, toUpperCase(Head(methods)), item[Head(methods)])>>
        ELSE <<>>)
       \o OperationsOf(path, item, Tail(methods))

RECURSIVE CollectEndpoints(_)
\* for (const [path, pathItem] of Object.entries(spec.paths))
CollectEndpoints(paths) ==
  IF paths = <<>> THEN <<>>
  ELSE OperationsOf(Head(paths).path, Head(paths).item, HTTP_METHODS)
       \o CollectEndpoints(Tail(paths))

\* the primary collation weight of a character: punctuation, then digits,
\* then letters without regard to case
PrimaryWeight(c) ==
  CASE c = "_" -> 1 [] c = "-" -> 2 [] c = "." -> 3 [] c = "{" -> 4 [] c = "}" -> 5
    [] c = "/" -> 6
    [] c \in {"a", "A"} -> 20 [] c \in {"b", "B"} -> 21 [] c \in {"c", "C"} -> 22
    [] c \in {"d", "D"} -> 23 [] c \in {"e", "E"} -> 24 [] c \in {"g", "G"} -> 26
    [] c \in {"h", "H"} -> 27 [] c \in {"i", "I"} -> 28 [] c \in {"l", "L"} -> 31
    [] c \in {"n", "N"} -> 33 [] c \in {"o", "O"} -> 34 [] c \in {"p", "P"} -> 35
    [] c \in {"s", "S"} -> 38 [] c \in {"t", "T"} -> 39 [] c \in {"u", "U"} -> 40

\* the case weight of a character: lower case sorts before upper case
CaseWeight(c) ==
  IF c \in {"A", "B", "C", "D", "E", "G", "H", "I", "L", "N", "O", "P", "S", "T", "U"}
  THEN 1 ELSE 0

RECURSIVE CompareWeights(_, _, _, _)
\* lexicographic comparison of a and b from position i, by primary weight or
\* by case weight: -1, 0 or 1
CompareWeights(a, b, level, i) ==
  LET w(c) == IF level = "primary" THEN PrimaryWeight(c) ELSE CaseWeight(c)
  IN IF i > Len(a) /\ i > Len(b) THEN 0
     ELSE IF i > Len(a) THEN -1
     ELSE IF i > Len(b) THEN 1
     ELSE IF w(a[i]) < w(b[i]) THEN -1
     ELSE IF w(a[i]) > w(b[i]) THEN 1
     ELSE CompareWeights(a, b, level, i + 1)

\* a.localeCompare(b): primary weights decide, case breaks ties
localeCompare(a, b) ==
  LET primary == CompareWeights(a, b, "primary", 1)
  IN IF primary # 0 THEN primary ELSE CompareWeights(a, b, "case", 1)

\* the comparator as if it compared the paths only
compareEndpoints_PathOnly(a, b) == localeCompare(a.path, b.path)

\* the comparator given to endpoints.sort: by path, then by method
compareEndpoints(a, b) ==
  LET pathCompare == localeCompare(a.path, b.path)
  IN IF pathCompare # 0 THEN pathCompare ELSE localeCompare(a.method, b.method)

RECURSIVE InsertSorted(_, _)
\* x placed after every element of the sorted sequence that does not compare greater
InsertSorted(sorted, x) ==
  IF sorted = <<>> THEN <<x>>
  ELSE IF compareEndpoints(x, Head(sorted)) < 0 THEN <<x>> \o sorted
  ELSE <<Head(sorted)>> \o InsertSorted(Tail(sorted), x)

RECURSIVE SortEndpoints(_, _)
\* Array.prototype.sort(compareFn): a stable sort
SortEndpoints(sorted, rest) ==
  IF rest = <<>> THEN sorted
  ELSE SortEndpoints(InsertSorted(sorted, Head(rest)), Tail(rest))

\* parseEndpoints(spec)
parseEndpoints(s) ==
  IF ~s.hasPaths THEN <<>>
  ELSE SortEndpoints(<<>>, CollectEndpoints(s.paths))

\* the tag group of the endpoints without tags
Untagged == <<"U", "n", "t", "a", "g", "g", "e", "d">>

\* the keys of the Map, in insertion order
GroupKeys(grouped) == [i \in 1..Len(grouped) |-> grouped[i].tag]

\* grouped.get(tag) || []
GroupOf(grouped, tag) ==
  IF \E i \in 1..Len(grouped) : grouped[i].tag = tag
  THEN grouped[CHOOSE i \in 1..Len(grouped) : grouped[i].tag = tag].endpoints
  ELSE <<>>

\* grouped.set(tag, existing): a present key keeps its place, a new key is
\* added at the end
SetGroup(grouped, tag, existing) ==
  IF \E i \in 1..Len(grouped) : grouped[i].tag = tag
  THEN [i \in 1..Len(grouped) |->
          IF grouped[i].tag = tag THEN [tag |-> tag, endpoints |-> existing]
          ELSE grouped[i]]
  ELSE Append(grouped, [tag |-> tag, endpoints |-> existing])

RECURSIVE PushToTags(_, _, _)
\* for (const tag of tags) { existing.push(endpoint); grouped.set(tag, existing) }
PushToTags(grouped, tags, e) ==
  IF tags = <<>> THEN grouped
  ELSE PushToTags(SetGroup(grouped, Head(tags), Append(GroupOf(grouped, Head(tags)), e)),
                  Tail(tags), e)

RECURSIVE GroupFrom_UntaggedDropped(_, _)
\* groupEndpointsByTag as if an endpoint without tags went to no group
GroupFrom_UntaggedDropped(grouped, endpoints) ==
  IF endpoints = <<>> THEN grouped
  ELSE GroupFrom_UntaggedDropped(
         PushToTags(grouped, Head(endpoints).tags, Head(endpoints)), Tail(endpoints))

RECURSIVE GroupFrom(_, _)
\* for (const endpoint of endpoints): its tags, or ["Untagged"] without tags
GroupFrom(grouped, endpoints) ==
  IF endpoints = <<>> THEN grouped
  ELSE LET e == Head(endpoints)
           tags == IF Len(e.tags) > 0 THEN e.tags ELSE <<Untagged>>
       IN GroupFrom(PushToTags(grouped, tags, e), Tail(endpoints))

\* groupEndpointsByTag(endpoints): the Map as the sequence of its entries
groupEndpointsByTag(endpoints) == GroupFrom(<<>>, endpoints)

(***************************************************************************)
(* src/lib/storage.ts: maskSensitiveHeaders                                *)
(*                                                                         *)
(* A Record<string, string> of headers is the sequence <<[name, value]>>   *)
(* of its entries in insertion order.                                      *)
(***************************************************************************)
UpperLetters ==
  <<"A", "B", "C", "D", "E", "F", "G", "H", "I", "J", "K", "L", "M", "N", "O", "P", "Q",
    "R", "S", "T", "U", "V", "W", "X", "Y", "Z">>

LowerLetters ==
  <<"a", "b", "c", "d", "e", "f", "g", "h", "i", "j", "k", "l", "m", "n", "o", "p", "q",
    "r", "s", "t", "u", "v", "w", "x", "y", "z">>

\* key.toLowerCase()
toLowerCase(s) ==
  [i \in 1..Len(s) |->
     IF \E k \in 1..26 : UpperLetters[k] = s[i]
     THEN LowerLetters[CHOOSE k \in 1..26 : UpperLetters[k] = s[i]]
     ELSE s[i]]

\* const sensitiveHeaders
sensitiveHeaders ==
  << <<"a", "u", "t", "h", "o", "r", "i", "z", "a", "t", "i", "o", "n">>,
     <<"x", "-", "a", "p", "i", "-", "k", "e", "y">>,
     <<"a", "p", "i", "-", "k", "e", "y">>,
     <<"t", "o", "k", "e", "n">>,
     <<"b", "e", "a", "r", "e", "r">> >>

\* sensitiveHeaders.some((h) => key.toLowerCase().includes(h))
IsSensitive(key) ==
  \E h \in 1..Len(sensitiveHeaders) : Includes(toLowerCase(key), sensitiveHeaders[h])

\* value.substring(start, end)
substring(value, start, end) == SubSeq(value, start + 1, end)

Stars == <<"*", "*", "*", "*">>

\* the masked value as if a value of 8 characters kept its ends
MaskedValue_From8(value) ==
  IF Len(value) >= 8
  THEN substring(value, 0, 4) \o Stars \o substring(value, Len(value) - 4, Len(value))
  ELSE Stars

\* the value written over a sensitive header's value
MaskedValue(value) ==
  IF Len(value) > 8
  THEN substring(value, 0, 4) \o Stars \o substring(value, Len(value) - 4, Len(value))
  ELSE Stars

\* maskSensitiveHeaders(headers): the copy that is returned
maskSensitiveHeaders(hs) ==
  [i \in 1..Len(hs) |->
     IF IsSensitive(hs[i].name)
     THEN [name |-> hs[i].name, value |-> MaskedValue(hs[i].value)]
     ELSE hs[i]]

(***************************************************************************)
(* src/lib/validation.ts: validateJson, with String.prototype.trim and     *)
(* JSON.parse as far as it accepts or rejects a text                       *)
(***************************************************************************)
\* the white space String.prototype.trim removes
TrimSpace == {" ", "\t", "\n", "\r"}

\* value.trim()
Trim(s) ==
  LET kept == {i \in 1..Len(s) : s[i] \notin TrimSpace}
  IN IF kept = {} THEN <<>>
     ELSE SubSeq(s, CHOOSE i \in kept : \A j \in kept : i <= j,
                    CHOOSE i \in kept : \A j \in kept : j <= i)

Digits == {"0", "1", "2", "3", "4", "5", "6", "7", "8", "9"}

\* the first position from i on that holds no JSON white space
SkipWs(s, i) ==
  LET stops == {j \in i..Len(s) : s[j] \notin TrimSpace}
  IN IF stops = {} THEN Len(s) + 1 ELSE CHOOSE j \in stops : \A k \in stops : j <= k

RECURSIVE JsonStringEnd(_, _)
\* the position after the string literal whose body starts at i, 0 if it
\* does not end or holds a control character or a wrong escape
JsonStringEnd(s, i) ==
  IF i > Len(s) THEN 0
  ELSE IF s[i] = "\"" THEN i + 1
  ELSE IF s[i] \in {"\n", "\t", "\r"} THEN 0
  ELSE IF s[i] = "\\"
  THEN (IF i < Len(s) /\ s[i + 1] \in {"\"", "\\", "/", "b", "f", "n", "r", "t"}
        THEN JsonStringEnd(s, i + 2) ELSE 0)
  ELSE JsonStringEnd(s, i + 1)

\* the position after the digits that start at i
DigitsEnd(s, i) ==
  LET stops == {j \in i..Len(s) : s[j] \notin Digits}
  IN IF stops = {} THEN Len(s) + 1 ELSE CHOOSE j \in stops : \A k \in stops : j <= k

\* the position after the number that starts at i, 0 if there is none
JsonNumberEnd(s, i) ==
  LET first == IF i <= Len(s) /\ s[i] = "-" THEN i + 1 ELSE i
      int == IF first <= Len(s) /\ s[first] = "0" THEN first + 1 ELSE DigitsEnd(s, first)
  IN IF int = first THEN 0
     ELSE IF int <= Len(s) /\ s[int] = "."
     THEN (IF DigitsEnd(s, int + 1) = int + 1 THEN 0 ELSE DigitsEnd(s, int + 1))
     ELSE int

RECURSIVE JsonValueEnd(_, _)
RECURSIVE JsonMembersEnd(_, _)
RECURSIVE JsonElementsEnd(_, _)
\* the position after the JSON value that starts at i, 0 if there is none
JsonValueEnd(s, i) ==
  IF i > Len(s) THEN 0
  ELSE CASE s[i] = "{" ->
              (IF SkipWs(s, i + 1) <= Len(s) /\ s[SkipWs(s, i + 1)] = "}"
               THEN SkipWs(s, i + 1) + 1
               ELSE JsonMembersEnd(s, SkipWs(s, i + 1)))
         [] s[i] = "[" ->
              (IF SkipWs(s, i + 1) <= Len(s) /\ s[SkipWs(s, i + 1)] = "]"
               THEN SkipWs(s, i + 1) + 1
               ELSE JsonElementsEnd(s, SkipWs(s, i + 1)))
         [] s[i] = "\"" -> JsonStringEnd(s, i + 1)
         [] s[i] \in Digits \cup {"-"} -> JsonNumberEnd(s, i)
         [] MatchAt(s, <<"t", "r", "u", "e">>, i) -> i + 4
         [] MatchAt(s, <<"f", "a", "l", "s", "e">>, i) -> i + 5
         [] MatchAt(s, <<"n", "u", "l", "l">>, i) -> i + 4
         [] OTHER -> 0

\* the position after the closing brace of the object whose members start at i
JsonMembersEnd(s, i) ==
  IF i > Len(s) \/ s[i] # "\"" THEN 0
  ELSE LET colon == IF JsonStringEnd(s, i + 1) = 0 THEN 0 ELSE SkipWs(s, JsonStringEnd(s, i + 1))
       IN IF colon = 0 \/ colon > Len(s) \/ s[colon] # ":" THEN 0
          ELSE LET value == JsonValueEnd(s, SkipWs(s, colon + 1))
                   next == IF value = 0 THEN 0 ELSE SkipWs(s, value)
               IN IF next = 0 \/ next > Len(s) THEN 0
                  ELSE IF s[next] = "}" THEN next + 1
                  ELSE IF s[next] = "," THEN JsonMembersEnd(s, SkipWs(s, next + 1))
                  ELSE 0

\* the position after the closing bracket of the array whose elements start at i
JsonElementsEnd(s, i) ==
  LET value == JsonValueEnd(s, i)
      next == IF value = 0 THEN 0 ELSE SkipWs(s, value)
  IN IF next = 0 \/ next > Len(s) THEN 0
     ELSE IF s[next] = "]" THEN next + 1
     ELSE IF s[next] = "," THEN JsonElementsEnd(s, SkipWs(s, next + 1))
     ELSE 0

\* JSON.parse(text) returns: the text is one JSON value between white space
JsonParses(s) ==
  LET end == JsonValueEnd(s, SkipWs(s, 1))
  IN end # 0 /\ SkipWs(s, end) = Len(s) + 1

\* the error message of validateJson
InvalidJsonFormat == <<"I", "n", "v", "a", "l", "i", "d", " ", "J", "S", "O", "N", " ", "f", "o", "r", "m", "a", "t">>

\* validateJson that accepts every text
validateJson_Lenient(value) == Undefined

\* validateJson(value): the error message, or undefined
validateJson(value) ==
  IF ~Truthy(Trim(value)) THEN Undefined
  ELSE IF JsonParses(value) THEN Undefined
  ELSE InvalidJsonFormat

(***************************************************************************)
(* src/lib/storage.ts: the request history                                 *)
(***************************************************************************)
\* const MAX_HISTORY_ENTRIES
MAX_HISTORY_ENTRIES == 100

\* addRequestToHistory without the splice
addRequestToHistory_NoLimit(stored, entry) == <<entry>> \o stored

\* addRequestToHistory(entry): the stored history afterwards, the new entry
\* first and at most MAX_HISTORY_ENTRIES entries kept
addRequestToHistory(stored, entry) ==
  LET unshifted == <<entry>> \o stored
  IN IF Len(unshifted) > MAX_HISTORY_ENTRIES
     THEN SubSeq(unshifted, 1, MAX_HISTORY_ENTRIES)
     ELSE unshifted

\* deleteRequestHistoryEntry: history.filter((h) => h.id !== id)
filterHistory(stored, id) == SelectSeq(stored, LAMBDA h : h.id # id)

(***************************************************************************)
(* src/components/RequestForm.tsx                                          *)
(*                                                                         *)
(* form     [paramValues, bodyJson, bodyParamValues, authSource,           *)
(*           customToken, isLoading, response], the state of the component *)
(* options  the curlOptions prop                                           *)
(* fetched  the calls of fetch: <<[url, method, headers, body]>>           *)
(* a Response is [status, ok, statusText, contentType, body, json], json   *)
(* being the entries of the object the body parses to                      *)
(***************************************************************************)
\* const activeToken
activeToken(o, f) == IF f.authSource = "stored" THEN o.authToken ELSE f.customToken

RECURSIVE BodyFromEntries(_)
\* the loop of buildBodyFromParams: a value that is not blank goes in, parsed
\* when it is JSON (for the number and literal texts of the model
\* JSON.stringify gives the parsed value back as the trimmed text), as a
\* string otherwise
BodyFromEntries(bodyParamValues) ==
  IF bodyParamValues = <<>> THEN <<>>
  ELSE LET key == Head(bodyParamValues).key
           value == Head(bodyParamValues).value
       IN (IF Truthy(Trim(value))
           THEN <<[key |-> key,
                   value |-> IF JsonParses(value) THEN JLit(Trim(value)) ELSE JStr(value)]>>
           ELSE <<>>)
          \o BodyFromEntries(Tail(bodyParamValues))

\* buildBodyFromParams()
buildBodyFromParams(f) ==
  IF f.bodyParamValues = <<>> THEN <<>>
  ELSE IF BodyFromEntries(f.bodyParamValues) # <<>>
  THEN JsonStringify2(BodyFromEntries(f.bodyParamValues))
  ELSE <<>>

\* getEffectiveBody()
getEffectiveBody(f) == OrElse(Trim(f.bodyJson), buildBodyFromParams(f))

\* getCurlWithValues()
getCurlWithValues(e, o, f) ==
  generateCurl(e, [o EXCEPT !.authToken = activeToken(o, f),
                            !.paramValues = f.paramValues,
                            !.bodyJson = OrElse(getEffectiveBody(f), Undefined)])

RECURSIVE replacePathParams(_, _, _)
\* buildRequestUrl: the loop over pathParams
replacePathParams(url, pathParams, paramValues) ==
  IF pathParams = <<>> THEN url
  ELSE LET param == Head(pathParams)
           value == Lookup(paramValues, param.name)
       IN replacePathParams(
            IF Truthy(value)
            THEN ReplaceFirst(url, Brace(param.name), encodeURIComponent(value))
            ELSE url,
            Tail(pathParams), paramValues)

RECURSIVE requestQueryParts(_, _)
\* buildRequestUrl: the loop over queryParams
requestQueryParts(queryParams, paramValues) ==
  IF queryParams = <<>> THEN <<>>
  ELSE LET param == Head(queryParams)
           value == Lookup(paramValues, param.name)
       IN (IF Truthy(value)
           THEN <<param.name \o <<"=">> \o encodeURIComponent(value)>>
           ELSE <<>>)
          \o requestQueryParts(Tail(queryParams), paramValues)

\* buildRequestUrl()
buildRequestUrl(e, o, f) ==
  LET url == replacePathParams(o.baseUrl \o e.path, getPathParams(e), f.paramValues)
      queryParts == requestQueryParts(getQueryParams(e), f.paramValues)
  IN IF Len(queryParts) > 0 THEN url \o <<"?">> \o Join(queryParts, <<"&">>) ELSE url

\* headers[name] = value
SetHeader(hs, name, value) ==
  IF \E i \in 1..Len(hs) : hs[i].name = name
  THEN [i \in 1..Len(hs) |-> IF hs[i].name = name THEN [name |-> name, value |-> value]
                             ELSE hs[i]]
  ELSE Append(hs, [name |-> name, value |-> value])

Authorization == <<"A", "u", "t", "h", "o", "r", "i", "z", "a", "t", "i", "o", "n">>
BearerSpace == <<"B", "e", "a", "r", "e", "r", " ">>
BasicSpace == <<"B", "a", "s", "i", "c", " ">>
ContentType == <<"C", "o", "n", "t", "e", "n", "t", "-", "T", "y", "p", "e">>

\* executeRequest: the switch over curlOptions.authType, which has no default case
requestAuthHeaders(o, token) ==
  IF Truthy(token)
  THEN CASE o.authType = "bearer" -> SetHeader(<<>>, Authorization, BearerSpace \o token)
         [] o.authType = "api-key" -> SetHeader(<<>>, OrElse(o.authHeader, XApiKey), token)
         [] o.authType = "basic" -> SetHeader(<<>>, Authorization, BasicSpace \o token)
         [] OTHER -> <<>>
  ELSE <<>>

RECURSIVE requestParamHeaders(_, _, _)
\* executeRequest: the loop over headerParams
requestParamHeaders(hs, headerParams, paramValues) ==
  IF headerParams = <<>> THEN hs
  ELSE LET param == Head(headerParams)
           value == Lookup(paramValues, param.name)
       IN requestParamHeaders(IF Truthy(value) THEN SetHeader(hs, param.name, value) ELSE hs,
                              Tail(headerParams), paramValues)

\* executeRequest: the headers record given to fetch
requestHeaders(e, o, f) ==
  LET withParams == requestParamHeaders(requestAuthHeaders(o, activeToken(o, f)),
                                        getHeaderParams(e), f.paramValues)
  IN IF hasBody(e)
     THEN SetHeader(withParams, ContentType, OrElse(getRequestBodyContentType(e), AppJson))
     ELSE withParams

\* executeRequest: the call fetch(url, fetchOptions)
fetchCall(e, o, f) ==
  [url |-> buildRequestUrl(e, o, f),
   method |-> e.method,
   headers |-> requestHeaders(e, o, f),
   body |-> IF hasBody(e) /\ Truthy(getEffectiveBody(f)) THEN getEffectiveBody(f) ELSE Undefined]

\* contentType.includes("application/json") ? JSON.stringify(await res.json(), null, 2)
\*                                           : await res.text()
responseText(res) ==
  IF Includes(res.contentType, AppJson) THEN JsonStringify2(res.json) ELSE res.body

\* the entry executeRequest gives addRequestToHistory (specId, specName and
\* timestamp left out), with the id addRequestToHistory adds
historyEntry(e, call, res) ==
  [id |-> 0,
   method |-> e.method,
   path |-> e.path,
   url |-> call.url,
   headers |-> maskSensitiveHeaders(call.headers),
   body |-> call.body,
   response |-> [status |-> res.status, statusText |-> res.statusText,
                 body |-> responseText(res), contentType |-> res.contentType]]

(***************************************************************************)
(* Inputs                                                                  *)
(***************************************************************************)
\* the sequences without repetition of at most n elements of pool
SeqsUpTo(pool, n) ==
  UNION {{q \in [1..k -> pool] : \A i, j \in 1..k : i # j => q[i] # q[j]} : k \in 0..n}

Param(name, in, required) == [name |-> name, in |-> in, required |-> required]

NId == <<"i", "d">>
NQ == <<"q">>
NOpt == <<"o">>
NHdr == <<"X", "-", "H">>
NGet == <<"X", "-", "G">>
NCookie == <<"c", "k">>

ParamPool ==
  {Param(NId, "path", TRUE), Param(NQ, "query", TRUE), Param(NOpt, "query", FALSE),
   Param(NHdr, "header", TRUE), Param(NGet, "header", FALSE),
   Param(NCookie, "cookie", TRUE)}

ParamLists == SeqsUpTo(ParamPool, MaxParams)

NoSchema ==
  [present |-> FALSE, type |-> Undefined, hasProps |-> FALSE, props |-> <<>>,
   required |-> <<>>]

Prop(key, type, format, example, default) ==
  [key |-> key, type |-> type, format |-> format, example |-> example, default |-> default]

PropPool ==
  {Prop(<<"n", "o", "t", "e">>, TString, Undefined, JStr(<<"i", "t", "'", "s">>), JUndef),
   Prop(<<"n">>, TInteger, Undefined, JUndef, JLit(<<"5">>)),
   Prop(<<"m">>, TString, FEmail, JUndef, JUndef),
   Prop(<<"z">>, TBoolean, Undefined, JNull, JLit(<<"5">>))}

\* a schema without `properties`
Typed(type) ==
  [present |-> TRUE, type |-> type, hasProps |-> FALSE, props |-> <<>>, required |-> <<>>]

\* a schema with `properties` and a `required` list
WithProps(type, ps, required) ==
  [present |-> TRUE, type |-> type, hasProps |-> TRUE, props |-> ps, required |-> required]

SchemaPool ==
  {NoSchema, Typed(TString), Typed(TObject), Typed(Undefined),
   WithProps(Undefined, <<Prop(<<"m">>, TString, FEmail, JUndef, JUndef)>>, <<>>)}
  \cup {WithProps(TObject, ps, required) :
          ps \in SeqsUpTo(PropPool, MaxProps), required \in {<<>>, <<<<"n">>>>}}

AppXml == <<"a", "p", "p", "l", "i", "c", "a", "t", "i", "o", "n", "/", "x", "m", "l">>

PlainSchema == Typed(TObject)

Entry(key, schema) == [key |-> key, schema |-> schema]

\* content maps: the keys in declaration order
ContentPool ==
  {<<>>,
   <<Entry(AppMergePatch, PlainSchema)>>,
   <<Entry(AppXml, PlainSchema)>>,
   <<Entry(AppXml, PlainSchema), Entry(AppMergePatch, PlainSchema)>>,
   <<Entry(TextJson, PlainSchema), Entry(AppJsonPatch, PlainSchema)>>,
   <<Entry(AppXml, PlainSchema), Entry(TextJson, PlainSchema)>>}
  \cup {<<Entry(AppJson, sch)>> : sch \in SchemaPool}
  \cup {<<Entry(AppMergePatch, PlainSchema), Entry(AppJson, sch)>> : sch \in SchemaPool}
  \cup {<<Entry(AppMergePatch, sch)>> : sch \in SchemaPool}
  \cup {<<Entry(AppXml, sch), Entry(TextJson, PlainSchema)>> : sch \in SchemaPool}

NoBody == [present |-> FALSE, required |-> FALSE, hasContent |-> FALSE, content |-> <<>>]

BodyPool ==
  {NoBody, [present |-> TRUE, required |-> FALSE, hasContent |-> FALSE, content |-> <<>>]}
  \cup {[present |-> TRUE, required |-> TRUE, hasContent |-> TRUE, content |-> c] :
          c \in ContentPool}
  \cup {[present |-> TRUE, required |-> FALSE, hasContent |-> TRUE,
          content |-> <<Entry(AppJson, sch)>>] :
          sch \in {Typed(TString), WithProps(TObject, <<>>, <<<<"n">>>>)}}

PatchBody ==
  [present |-> TRUE, required |-> TRUE, hasContent |-> TRUE,
   content |-> <<Entry(AppMergePatch, PlainSchema)>>]

PathUser == <<"/", "u", "/", "{", "i", "d", "}">>
PathTwice == <<"/", "u", "/", "{", "i", "d", "}", "/", "c", "/", "{", "i", "d", "}">>
PathPlain == <<"/", "s">>

BaseUrl == <<"h", ":", "/", "/", "a", ".", "e">>
\* a server url with a server variable
BaseUrlTemplated == <<"h", ":", "/", "/", "{", "i", "d", "}", ".", "e">>

\* Record<string, string> maps of supplied values
ParamValuesPool ==
  {<<>>,
   [n \in {NId, NQ, NOpt, NHdr, NGet, NCookie} |-> <<"a", " ", "b">>],
   (NId :> <<"4", "2">>) @@ (NQ :> <<>>) @@ (NHdr :> <<"k">>),
   (NOpt :> <<"x", "/", "y">>) @@ (NGet :> <<"z">>)}

Token == <<"a", "b", "c", "1", "2", "3">>

Auth(token, type, header) == [authToken |-> token, authType |-> type, authHeader |-> header]

NoAuth == Auth(Undefined, "undefined", Undefined)

AuthPool ==
  {NoAuth,
   Auth(<<>>, "bearer", Undefined),
   Auth(Token, "undefined", Undefined),
   Auth(Token, "bearer", <<"K">>),
   Auth(Token, "api-key", Undefined),
   Auth(Token, "api-key", <<"K">>),
   Auth(Token, "basic", Undefined)}

BodyJsonPool ==
  {Undefined,
   <<>>,
   <<"{", "\"", "a", "\"", ":", "\"", "i", "t", "'", "s", "\"", "}">>,
   <<"{", "\n", " ", "\"", "a", "\"", ":", "1", "\n", "}">>,
   <<"a", " ", "\\", "\n", " ", "b">>}

Endpoint(path, method, parameters, requestBody, hasAuth) ==
  [path |-> path, method |-> method, tags |-> <<>>, parameters |-> parameters,
   requestBody |-> requestBody, hasAuth |-> hasAuth]

Options(baseUrl, auth, includeExampleBody, paramValues, bodyJson) ==
  [baseUrl |-> baseUrl, authToken |-> auth.authToken, authType |-> auth.authType,
   authHeader |-> auth.authHeader, includeExampleBody |-> includeExampleBody,
   paramValues |-> paramValues, bodyJson |-> bodyJson]

Security(present, reqs) == [present |-> present, reqs |-> reqs]

Operation(security) ==
  [tags |-> <<>>, parameters |-> <<>>, requestBody |-> NoBody, security |-> security]

TagA == <<"A">>
TagB == <<"B">>

\* an operation with tags
Tagged(tags, security) == [Operation(security) EXCEPT !.tags = tags]

KGet == <<"g", "e", "t">>
KPost == <<"p", "o", "s", "t">>
KPut == <<"p", "u", "t">>
KPatch == <<"p", "a", "t", "c", "h">>
KDelete == <<"d", "e", "l", "e", "t", "e">>
KOptions == <<"o", "p", "t", "i", "o", "n", "s">>
KHead == <<"h", "e", "a", "d">>

\* path items: which method keys are defined, and what security each declares
ItemPool ==
  {<<>>,
   (KGet :> Operation(Security(FALSE, <<>>))),
   (KPost :> Tagged(<<TagA, TagB>>, Security(TRUE, <<"key">>)))
     @@ (KGet :> Tagged(<<TagB>>, Security(TRUE, <<>>))),
   [k \in {KPut, KPatch, KDelete, KOptions, KHead} |->
      Tagged(CASE k = KPut -> <<TagA, TagA>>
               [] k = KPatch -> <<Untagged>>
               [] k = KOptions -> <<TagB, TagA>>
               [] OTHER -> <<>>,
             Security(TRUE, <<"key">>))]}

PathKeyPool ==
  {<<"/", "b">>, <<"/", "a">>, <<"/", "a", "/", "{", "i", "d", "}">>,
   <<"/", "a", "/", "b">>}

\* spec documents: no `paths` at all, or up to MaxPaths path templates
SpecPool ==
  {[hasPaths |-> FALSE, paths |-> <<>>]}
  \cup UNION {{[hasPaths |-> TRUE,
                paths |-> [i \in 1..Len(ks) |-> [path |-> ks[i], item |-> items[i]]]] :
                 items \in [1..Len(ks) -> ItemPool]} :
              ks \in SeqsUpTo(PathKeyPool, MaxPaths)}

\* header names and values given to maskSensitiveHeaders
HeaderNamePool ==
  {<<"A", "u", "t", "h", "o", "r", "i", "z", "a", "t", "i", "o", "n">>,
   <<"X", "-", "A", "P", "I", "-", "K", "e", "y">>,
   <<"X", "-", "A", "u", "t", "h", "-", "T", "O", "K", "E", "N">>,
   <<"b", "e", "a", "r", "e", "r", "s">>,
   <<"C", "o", "n", "t", "e", "n", "t", "-", "T", "y", "p", "e">>,
   <<"K">>}

HeaderValuePool ==
  {<<>>,
   <<"1", "2", "3", "4", "5", "6", "7", "8">>,
   <<"1", "2", "3", "4", "5", "6", "7", "8", "9">>,
   <<"B", "e", "a", "r", "e", "r", " ", "a", "b", "c", "d", "e", "f", "g", "h", "i", "j",
     "k", "l", "m", "n", "o", "p">>}

HeaderPool == {[name |-> n, value |-> v] : n \in HeaderNamePool, v \in HeaderValuePool}

\* headers records: the names of a record are distinct
HeaderRecords ==
  {hs \in SeqsUpTo(HeaderPool, MaxHeaders) :
     \A i, j \in 1..Len(hs) : i # j => hs[i].name # hs[j].name}

NoEndpoint == Endpoint(<<>>, GET, <<>>, NoBody, FALSE)
NoOptions == Options(<<>>, NoAuth, FALSE, <<>>, Undefined)
NoSpec == [hasPaths |-> FALSE, paths |-> <<>>]

(***************************************************************************)
(* The state machine: an endpoint and options are at hand (op =            *)
(* "endpoint") and one of the generators is called on them, or a spec      *)
(* document is at hand (op = "document") and parseEndpoints is called.     *)
(***************************************************************************)
\* the parameter list declares a path parameter
DeclaresPathParam(ps) == \E i \in 1..Len(ps) : ps[i].in = "path"

\* a path template with the parameter lists that declare its placeholder
PathsWithParams ==
  {pp \in {PathUser, PathTwice, PathPlain} \X ParamLists :
     DeclaresPathParam(pp[2]) <=> pp[1] # PathPlain}

\* endpoints whose parameters and path vary: url and query string
InitUrl ==
  /\ endpoint \in {Endpoint(pp[1], method, pp[2], NoBody, FALSE) :
                     pp \in PathsWithParams, method \in {GET, DELETE}}
  /\ options \in {Options(b, NoAuth, FALSE, pv, Undefined) :
                    b \in {BaseUrl, BaseUrlTemplated}, pv \in ParamValuesPool}

\* endpoints and options whose authentication varies
InitAuth ==
  /\ endpoint \in {Endpoint(PathPlain, method, <<>>, NoBody, hasAuth) :
                     method \in {GET, POST}, hasAuth \in BOOLEAN}
  /\ options \in {Options(BaseUrl, a, FALSE, <<>>, Undefined) : a \in AuthPool}

\* endpoints and options whose request body varies
InitBody ==
  /\ endpoint \in {Endpoint(PathPlain, method, <<>>, body, FALSE) :
                     method \in {GET, POST, PUT, PATCH, DELETE}, body \in BodyPool}
  /\ options \in {Options(BaseUrl, NoAuth, ex, <<>>, bj) :
                    ex \in BOOLEAN, bj \in BodyJsonPool}

\* endpoints and options with every kind of token at once
InitMixed ==
  /\ endpoint \in {Endpoint(pp[1], method, pp[2], body, TRUE) :
                     pp \in {qq \in PathsWithParams : qq[1] # PathTwice},
                     method \in {GET, POST}, body \in {NoBody, PatchBody}}
  /\ options \in {Options(BaseUrl, a, FALSE, pv, bj) :
                    a \in {NoAuth, Auth(Token, "api-key", Undefined)},
                    pv \in ParamValuesPool,
                    bj \in {Undefined, <<"i", "t", "'", "s">>}}

\* nothing is stored and no call is in flight
NoStore ==
  /\ specs = <<>>
  /\ cache = <<>>
  /\ tokens = <<>>
  /\ clock = 0
  /\ calls = <<>>
  /\ hook = <<>>

\* no request form is open
NoLiveRequest ==
  /\ form = <<>>
  /\ fetched = <<>>
  /\ history = <<>>
  /\ toast = <<>>

\* the endpoints a request form is opened on
LiveEndpoints ==
  [user |-> Endpoint(PathUser, GET, <<Param(NId, "path", TRUE), Param(NQ, "query", TRUE)>>,
                     NoBody, TRUE),
   patch |-> Endpoint(PathPlain, POST, <<Param(NHdr, "header", TRUE), Param(NOpt, "query", FALSE)>>,
                      PatchBody, FALSE),
   put |-> Endpoint(PathPlain, PUT, <<>>,
                    [present |-> TRUE, required |-> TRUE, hasContent |-> TRUE,
                     content |-> <<Entry(AppJson, WithProps(TObject,
                                   <<Prop(<<"n">>, TInteger, Undefined, JUndef, JLit(<<"5">>))>>,
                                   <<>>))>>],
                    TRUE),
   plain |-> Endpoint(PathPlain, GET, <<>>, NoBody, FALSE),
   cookie |-> Endpoint(PathPlain, GET, <<Param(NCookie, "cookie", TRUE), Param(NGet, "header", FALSE)>>,
                       NoBody, FALSE)]

\* the state of a form: nothing is loading
Form(paramValues, bodyJson, bodyParamValues, authSource, customToken, response) ==
  [paramValues |-> paramValues, bodyJson |-> bodyJson, bodyParamValues |-> bodyParamValues,
   authSource |-> authSource, customToken |-> customToken, isLoading |-> FALSE,
   response |-> response]

\* texts of the raw JSON field
RawBodyPool ==
  {<<>>, <<" ">>, <<"{", "\"", "a", "\"", ":", "1", "}">>, <<"{", "a">>,
   <<"i", "t", "'", "s">>}

BodyField(key, value) == [key |-> key, value |-> value]

\* values of the body-parameter fields
BodyFieldsPool ==
  {<<>>,
   <<BodyField(<<"n">>, <<" ">>)>>,
   <<BodyField(<<"n">>, <<"5", " ">>), BodyField(<<"m">>, <<"x", " ", "y">>)>>}

\* the response state null: nothing is shown
NoResponse == [kind |-> "none", ok |-> FALSE, status |-> 0, text |-> <<>>]

\* a response shown by an earlier request of the form
ShownResponse == [kind |-> "status", ok |-> TRUE, status |-> 200, text |-> <<"o", "k">>]

\* an entry already in the stored history
OldEntry(i) ==
  [id |-> i, method |-> GET, path |-> PathPlain, url |-> BaseUrl \o PathPlain,
   headers |-> <<>>, body |-> Undefined,
   response |-> [status |-> 200, statusText |-> <<"O", "K">>, body |-> <<>>,
                 contentType |-> <<>>]]

\* stored histories: empty, one entry, full
HistoryPool ==
  {<<>>, <<OldEntry(1)>>, [i \in 1..MAX_HISTORY_ENTRIES |-> OldEntry(i)]}

TextPlain == <<"t", "e", "x", "t", "/", "p", "l", "a", "i", "n">>

\* what the server may answer
ResponsePool ==
  {[status |-> 200, ok |-> TRUE, statusText |-> <<"O", "K">>,
    contentType |-> AppJson \o <<";", " ", "c", "h", "a", "r", "s", "e", "t", "=", "u", "t", "f", "-", "8">>,
    body |-> <<"{", "\"", "a", "\"", ":", "1", "}">>,
    json |-> <<[key |-> <<"a">>, value |-> JLit(<<"1">>)]>>],
   [status |-> 404, ok |-> FALSE, statusText |-> <<"N", "o", "t", " ", "F", "o", "u", "n", "d">>,
    contentType |-> TextPlain, body |-> <<"n", "o">>, json |-> <<>>],
   [status |-> 500, ok |-> FALSE, statusText |-> <<"E", "r", "r", "o", "r">>,
    contentType |-> <<>>, body |-> <<"<", "h", "1", ">">>, json |-> <<>>],
   [status |-> 204, ok |-> TRUE, statusText |-> <<"N", "o", " ", "C", "o", "n", "t", "e", "n", "t">>,
    contentType |-> AppJson, body |-> <<>>, json |-> <<>>]}

CustomToken == <<"t", "o", "k", "1", "2", "3", "4", "5", "6">>
ShortToken == <<"a", "b", "c">>

\* forms whose parameter values vary
InitLiveUrl ==
  /\ endpoint \in {LiveEndpoints.user, LiveEndpoints.patch, LiveEndpoints.cookie}
  /\ options \in {Options(BaseUrl, a, FALSE, <<>>, Undefined) :
                    a \in {NoAuth, Auth(Token, "bearer", Undefined)}}
  /\ form \in {Form(pv, <<>>, <<>>, "stored", <<>>, NoResponse) : pv \in ParamValuesPool}
  /\ history = <<>>

\* forms whose authentication varies
InitLiveAuth ==
  /\ endpoint \in {LiveEndpoints.plain, LiveEndpoints.put}
  /\ options \in {Options(BaseUrl, a, FALSE, <<>>, Undefined) : a \in AuthPool}
  /\ form \in {Form(<<>>, <<>>, <<>>, source, custom, NoResponse) :
                 source \in {"stored", "custom"},
                 custom \in {<<>>, CustomToken, ShortToken}}
  /\ history \in {<<>>, <<OldEntry(1)>>}

\* forms whose request body varies
InitLiveBody ==
  /\ endpoint \in {LiveEndpoints.put, LiveEndpoints.patch, LiveEndpoints.plain}
  /\ options = Options(BaseUrl, Auth(Token, "bearer", Undefined), FALSE, <<>>, Undefined)
  /\ form \in {Form((NHdr :> <<"k">>), raw, fields, "stored", <<>>, shown) :
                 raw \in RawBodyPool, fields \in BodyFieldsPool,
                 shown \in {NoResponse, ShownResponse}}
  /\ history \in HistoryPool

\* a request form is open on an endpoint
InitForm ==
  /\ op = "form"
  /\ InitLiveUrl \/ InitLiveAuth \/ InitLiveBody
  /\ fetched = <<>>
  /\ toast = <<>>
  /\ spec = NoSpec
  /\ parts = <<>>
  /\ out = <<>>
  /\ previous = <<>>
  /\ headers = <<>>
  /\ NoStore

\* a headers record is at hand
InitHeaders ==
  /\ op = "headers"
  /\ headers \in HeaderRecords
  /\ endpoint = NoEndpoint
  /\ options = NoOptions
  /\ spec = NoSpec
  /\ parts = <<>>
  /\ out = <<>>
  /\ previous = <<>>
  /\ NoLiveRequest
  /\ NoStore

Init ==
  \/ InitHeaders
  \/ InitForm
  \/ /\ op = "endpoint"
     /\ InitUrl \/ InitAuth \/ InitBody \/ InitMixed
     /\ spec = NoSpec
     /\ parts = <<>>
     /\ out = <<>>
     /\ previous = <<>>
     /\ headers = <<>>
     /\ NoLiveRequest
     /\ NoStore
  \/ /\ op = "document"
     /\ spec \in SpecPool
     /\ endpoint = NoEndpoint
     /\ options = NoOptions
     /\ parts = <<>>
     /\ out = <<>>
     /\ previous = <<>>
     /\ headers = <<>>
     /\ NoLiveRequest
     /\ NoStore

\* generateCurl(endpoint, options) is called and returns
GenerateCurl ==
  /\ op = "endpoint"
  /\ op' = "generateCurl"
  /\ parts' = curlParts(endpoint, options)
  /\ out' = generateCurl(endpoint, options)
  /\ UNCHANGED <<endpoint, options, spec, previous, headers, liveVars, storeVars>>

\* generateCompactCurl(endpoint, options) is called and returns
GenerateCompactCurl ==
  /\ op = "endpoint"
  /\ op' = "generateCompactCurl"
  /\ parts' = curlParts(endpoint, options)
  /\ out' = generateCompactCurl(endpoint, options)
  /\ UNCHANGED <<endpoint, options, spec, previous, headers, liveVars, storeVars>>

\* the three parameter filters are called on the endpoint
FilterParameters ==
  /\ op = "endpoint"
  /\ op' = "filterParameters"
  /\ out' = [path |-> getPathParams(endpoint), query |-> getQueryParams(endpoint),
             header |-> getHeaderParams(endpoint)]
  /\ UNCHANGED <<endpoint, options, spec, parts, previous, headers, liveVars, storeVars>>

\* getBodyParams(endpoint) is called and returns
GetBodyParams ==
  /\ op = "endpoint"
  /\ op' = "getBodyParams"
  /\ out' = getBodyParams(endpoint)
  /\ UNCHANGED <<endpoint, options, spec, parts, previous, headers, liveVars, storeVars>>

\* parseEndpoints(spec) is called and returns
ParseEndpoints ==
  /\ op = "document"
  /\ op' = "parseEndpoints"
  /\ out' = parseEndpoints(spec)
  /\ UNCHANGED <<endpoint, options, spec, parts, previous, headers, liveVars, storeVars>>

\* parseEndpoints(spec) is called a second time on the same document
ParseEndpointsAgain ==
  /\ op = "parseEndpoints"
  /\ op' = "parseEndpointsAgain"
  /\ previous' = out
  /\ out' = parseEndpoints(spec)
  /\ UNCHANGED <<endpoint, options, spec, parts, headers, liveVars, storeVars>>

\* groupEndpointsByTag is called on the endpoints parseEndpoints returned
GroupEndpointsByTag ==
  /\ op = "parseEndpoints"
  /\ op' = "groupEndpointsByTag"
  /\ previous' = out
  /\ out' = groupEndpointsByTag(out)
  /\ UNCHANGED <<endpoint, options, spec, parts, headers, liveVars, storeVars>>

\* maskSensitiveHeaders(headers) is called and returns: it works on a copy,
\* `previous` keeps the record as it was given
MaskSensitiveHeaders ==
  /\ op = "headers"
  /\ op' = "maskSensitiveHeaders"
  /\ previous' = headers
  /\ out' = maskSensitiveHeaders(headers)
  /\ UNCHANGED <<endpoint, options, spec, parts, headers, liveVars, storeVars>>

Toast(style, title) == [style |-> style, title |-> title]

\* the response state after a failure: the error message is shown
ErrorResponse == [kind |-> "error", ok |-> FALSE, status |-> 0, text |-> <<>>]

\* executeRequest up to `await fetch(url, fetchOptions)`: a body that is not
\* JSON ends it with a toast; otherwise the form is loading, the response is
\* cleared and fetch is called. `previous` keeps the history and the form as
\* they were when the handler started.
ExecuteRequest ==
  /\ op = "form"
  /\ previous' = [history |-> history, form |-> form]
  /\ LET effectiveBody == getEffectiveBody(form)
     IN IF Truthy(effectiveBody) /\ Truthy(validateJson(effectiveBody))
        THEN /\ op' = "refused"
             /\ toast' = Toast("Failure", "Invalid JSON")
             /\ UNCHANGED <<form, fetched>>
        ELSE /\ op' = "fetching"
             /\ form' = [form EXCEPT !.isLoading = TRUE, !.response = NoResponse]
             /\ fetched' = Append(fetched, fetchCall(endpoint, options, form))
             /\ UNCHANGED toast
  /\ UNCHANGED <<endpoint, options, spec, parts, out, headers, history, storeVars>>

\* executeRequest after fetch resolved with a response: the body is read
\* (res.json() throws on a body that is not JSON, which the catch block
\* takes), the entry is stored, the response shown, the toast raised
FetchResponds ==
  /\ op = "fetching"
  /\ \E res \in ResponsePool :
       /\ out' = res
       /\ IF Includes(res.contentType, AppJson) /\ ~JsonParses(res.body)
          THEN /\ op' = "unreadable"
               /\ form' = [form EXCEPT !.isLoading = FALSE, !.response = ErrorResponse]
               /\ toast' = Toast("Failure", "Request failed")
               /\ UNCHANGED history
          ELSE /\ op' = "responded"
               /\ history' = addRequestToHistory(history,
                                historyEntry(endpoint, fetched[Len(fetched)], res))
               /\ form' = [form EXCEPT !.isLoading = FALSE,
                                        !.response = [kind |-> "status", ok |-> res.ok,
                                                      status |-> res.status,
                                                      text |-> responseText(res)]]
               /\ toast' = Toast(IF res.ok THEN "Success" ELSE "Failure", "status")
  /\ UNCHANGED <<endpoint, options, spec, parts, previous, headers, fetched, storeVars>>

\* executeRequest after fetch rejected: no response, the catch block
FetchFails ==
  /\ op = "fetching"
  /\ op' = "failed"
  /\ form' = [form EXCEPT !.isLoading = FALSE, !.response = ErrorResponse]
  /\ toast' = Toast("Failure", "Request failed")
  /\ UNCHANGED <<endpoint, options, spec, parts, out, previous, headers, fetched, history, storeVars>>

\* handleCopy: the command for the values of the form is copied
HandleCopy ==
  /\ op \in {"form", "refused"}
  /\ op' = "copied"
  /\ out' = getCurlWithValues(endpoint, options, form)
  /\ toast' = Toast("Success", "Copied to clipboard")
  /\ UNCHANGED <<endpoint, options, spec, parts, previous, headers, form, fetched, history, storeVars>>

Next ==
  \/ ExecuteRequest \/ FetchResponds \/ FetchFails \/ HandleCopy
  \/ MaskSensitiveHeaders
  \/ GenerateCurl \/ GenerateCompactCurl \/ FilterParameters \/ GetBodyParams
  \/ ParseEndpoints \/ ParseEndpointsAgain \/ GroupEndpointsByTag

Spec == Init /\ [][Next]_vars

(***************************************************************************)
(* The request history under asynchronous calls (src/lib/storage.ts).      *)
(* Each exported function is a call in flight that advances from one       *)
(* await to the next: it reads the stored list (getRequestHistory), then   *)
(* writes the list it computed from what it read (LocalStorage.setItem).   *)
(* The steps of different calls interleave at the awaits.                  *)
(*                                                                         *)
(* calls     the calls in flight: [fn, pc, arg, local], local being what   *)
(*           the call holds in its variables                               *)
(* clock     the count of ids generated so far                             *)
(* previous  the storage when the latest call was made, whether two calls  *)
(*           were ever in flight together, and the count of calls made     *)
(***************************************************************************)
\* the variables the storage functions leave alone
idleVars == <<endpoint, options, spec, parts, headers, form, fetched, toast>>

\* no endpoint, document, headers record or request form is at hand
Idle ==
  /\ endpoint = NoEndpoint
  /\ options = NoOptions
  /\ spec = NoSpec
  /\ parts = <<>>
  /\ headers = <<>>
  /\ form = <<>>
  /\ fetched = <<>>
  /\ toast = <<>>

\* a stored entry, told from the others by its id (the other fields of a
\* RequestHistoryEntry are those of OldEntry)
HistoryRecord(id) == OldEntry(id)

\* the stored history of n entries, the most recent first
StoredHistory(n) ==
  [i \in 1..n |-> HistoryRecord(MAX_HISTORY_ENTRIES + 1 - i)]

\* a sequence without its i-th element
RemoveAt(seq, i) == SubSeq(seq, 1, i - 1) \o SubSeq(seq, i + 1, Len(seq))

\* a call in flight
Call(fn, pc, arg, local) == [fn |-> fn, pc |-> pc, arg |-> arg, local |-> local]

\* the storage as it is, with the marks of the calls made
Snapshot(overlapped, made) ==
  [history |-> history, specs |-> specs, cache |-> cache, tokens |-> tokens,
   overlapped |-> overlapped, made |-> made]

\* a call is made: it is in flight, and overlaps the calls already there
Made(call) ==
  /\ Len(calls) < MaxCalls
  /\ previous.made < MaxOps
  /\ calls' = Append(calls, call)
  /\ previous' = Snapshot(previous.overlapped \/ calls # <<>>, previous.made + 1)

HistoryInit ==
  /\ op = "history"
  /\ history \in {StoredHistory(0), StoredHistory(1),
                   StoredHistory(MAX_HISTORY_ENTRIES - 1),
                   StoredHistory(MAX_HISTORY_ENTRIES)}
  /\ clock = MAX_HISTORY_ENTRIES
  /\ calls = <<>>
  /\ out = <<>>
  /\ Idle
  /\ specs = <<>>
  /\ cache = <<>>
  /\ tokens = <<>>
  /\ hook = <<>>
  /\ previous = Snapshot(FALSE, 0)

\* addRequestToHistory(entry) is called
CallAddRequestToHistory ==
  /\ Made(Call("addRequestToHistory", "read", 0, <<>>))
  /\ UNCHANGED <<op, out, history, clock, specs, cache, tokens, hook, idleVars>>

\* addRequestToHistory: `await getRequestHistory()` returns, the id of the
\* new entry is generated, the entry is unshifted and the list spliced
AddRequestToHistoryReads ==
  \E i \in 1..Len(calls) :
    /\ calls[i].fn = "addRequestToHistory"
    /\ calls[i].pc = "read"
    /\ clock' = clock + 1
    /\ calls' = [calls EXCEPT ![i] =
                   Call("addRequestToHistory", "write", HistoryRecord(clock'),
                        addRequestToHistory(history, HistoryRecord(clock')))]
    /\ UNCHANGED <<op, out, history, previous, specs, cache, tokens, hook, idleVars>>

\* addRequestToHistory: `await LocalStorage.setItem(...)` stores the list and
\* the call returns the new entry
AddRequestToHistoryWrites ==
  \E i \in 1..Len(calls) :
    /\ calls[i].fn = "addRequestToHistory"
    /\ calls[i].pc = "write"
    /\ history' = calls[i].local
    /\ calls' = RemoveAt(calls, i)
    /\ op' = "addRequestToHistory"
    /\ out' = calls[i].arg
    /\ UNCHANGED <<previous, clock, specs, cache, tokens, hook, idleVars>>

\* the ids deleteRequestHistoryEntry is called with: the newest and the
\* oldest stored entry, and an id that is not stored
DeletableIds ==
  {0} \cup (IF history = <<>> THEN {} ELSE {history[1].id, history[Len(history)].id})

\* deleteRequestHistoryEntry(id) is called
CallDeleteRequestHistoryEntry ==
  \E id \in DeletableIds :
    /\ Made(Call("deleteRequestHistoryEntry", "read", id, <<>>))
    /\ UNCHANGED <<op, out, history, clock, specs, cache, tokens, hook, idleVars>>

\* deleteRequestHistoryEntry: `await getRequestHistory()` returns and the
\* list is filtered; when nothing was filtered out the call returns false
DeleteRequestHistoryEntryReads ==
  \E i \in 1..Len(calls) :
    /\ calls[i].fn = "deleteRequestHistoryEntry"
    /\ calls[i].pc = "read"
    /\ LET filtered == filterHistory(history, calls[i].arg)
       IN IF Len(filtered) = Len(history)
          THEN /\ calls' = RemoveAt(calls, i)
               /\ op' = "deleteRequestHistoryEntry"
               /\ out' = FALSE
          ELSE /\ calls' = [calls EXCEPT ![i] =
                              Call("deleteRequestHistoryEntry", "write", calls[i].arg, filtered)]
               /\ UNCHANGED <<op, out>>
    /\ UNCHANGED <<history, previous, clock, specs, cache, tokens, hook, idleVars>>

\* deleteRequestHistoryEntry: the filtered list is stored, the call returns true
DeleteRequestHistoryEntryWrites ==
  \E i \in 1..Len(calls) :
    /\ calls[i].fn = "deleteRequestHistoryEntry"
    /\ calls[i].pc = "write"
    /\ history' = calls[i].local
    /\ calls' = RemoveAt(calls, i)
    /\ op' = "deleteRequestHistoryEntry"
    /\ out' = TRUE
    /\ UNCHANGED <<previous, clock, specs, cache, tokens, hook, idleVars>>

\* clearRequestHistory(): the key is removed, getRequestHistory gives []
ClearRequestHistory ==
  /\ previous.made < MaxOps
  /\ history' = <<>>
  /\ op' = "clearRequestHistory"
  /\ out' = <<>>
  /\ previous' = Snapshot(previous.overlapped \/ calls # <<>>, previous.made + 1)
  /\ UNCHANGED <<calls, clock, specs, cache, tokens, hook, idleVars>>

HistoryNext ==
  \/ CallAddRequestToHistory \/ AddRequestToHistoryReads \/ AddRequestToHistoryWrites
  \/ CallDeleteRequestHistoryEntry \/ DeleteRequestHistoryEntryReads
  \/ DeleteRequestHistoryEntryWrites
  \/ ClearRequestHistory

HistorySpec == HistoryInit /\ [][HistoryNext]_vars

(***************************************************************************)
(* The stored specs and their cached documents (src/lib/storage.ts) under  *)
(* the add form (AddOpenAPISpec.onSubmit) and the list actions, one call   *)
(* at a time. A write of LocalStorage may reject.                          *)
(*                                                                         *)
(* specs  the list under "openapi-specs": StoredSpec [id, name, url,       *)
(*        addedAt]                                                         *)
(* cache  the items "spec-cache-<id>": a function from spec ids to         *)
(*        documents                                                        *)
(* A document [hasPaths, openapi, swagger, hasInfo, rev] says which of     *)
(* paths, openapi, swagger and info it has; rev tells documents apart.     *)
(***************************************************************************)
Doc(hasPaths, openapi, swagger, hasInfo, rev) ==
  [hasPaths |-> hasPaths, openapi |-> openapi, swagger |-> swagger,
   hasInfo |-> hasInfo, rev |-> rev]

\* the documents a url, a pasted text or a file resolves to
DocPool ==
  {Doc(TRUE, TRUE, FALSE, TRUE, 1), Doc(TRUE, FALSE, TRUE, FALSE, 2),
   Doc(FALSE, TRUE, FALSE, TRUE, 3), Doc(TRUE, FALSE, FALSE, TRUE, 4)}

\* SwaggerParser rejects: the fetch or the parse failed
ResolveFailure == Doc(FALSE, FALSE, FALSE, FALSE, 0)

\* fetchSpec and parseAndValidateSpec accept every document
IsOpenApiDocument_Any(doc) == TRUE

\* fetchSpec, parseAndValidateSpec: the document has paths and a version marker
IsOpenApiDocument(doc) == doc.hasPaths /\ (doc.openapi \/ doc.swagger)

\* LocalStorage.setItem(key, value) on the items of one prefix
setItem(items, key, value) ==
  [k \in DOMAIN items \cup {key} |-> IF k = key THEN value ELSE items[k]]

\* removeItem that clears the prefix
removeItem_All(items, key) == <<>>

\* LocalStorage.removeItem(key) on the items of one prefix
removeItem(items, key) == [k \in DOMAIN items \ {key} |-> items[k]]

StoredSpec(id, name, url, addedAt) ==
  [id |-> id, name |-> name, url |-> url, addedAt |-> addedAt]

SpecUrl == <<"h", ":", "/", "/", "a", ".", "e", "/", "o">>
PastedPrefix == <<"p", "a", "s", "t", "e", "d", ":">>
FilePrefix == <<"f", "i", "l", "e", ":", "/", "/">>
CopySuffix == <<" ", "(", "C", "o", "p", "y", ")">>
UntitledApi == <<"U", "n", "t", "i", "t", "l", "e", "d", " ", "A", "P", "I">>
InfoTitle == <<"T">>

\* the url of the record the add form stores: sourceUrl || pasted:<now>
sourceUrlOf(sourceType, now) ==
  CASE sourceType = "url" -> SpecUrl
    [] sourceType = "file" -> FilePrefix \o <<"f">>
    [] sourceType = "paste" -> PastedPrefix \o <<"1">>

\* addSpec(spec, specId): the list with the new record pushed
addSpec(stored, newSpec) == Append(stored, newSpec)

\* the ids of the stored specs
SpecIds == {specs[i].id : i \in 1..Len(specs)}

\* specs.find((s) => s.id === id), for an id that is stored
findSpec(stored, id) == stored[CHOOSE i \in 1..Len(stored) : stored[i].id = id]

\* duplicateSpec: the copy of a record
duplicated(original, id, now) ==
  [original EXCEPT !.id = id, !.name = original.name \o CopySuffix, !.addedAt = now]

\* updateSpec: specs[index] = { ...specs[index], ...updates } for a new name
updateSpec(stored, id, name) ==
  [i \in 1..Len(stored) |-> IF stored[i].id = id THEN [stored[i] EXCEPT !.name = name]
                             ELSE stored[i]]

\* deleteSpec: specs.filter((s) => s.id !== id)
filterSpecs(stored, id) == SelectSeq(stored, LAMBDA r : r.id # id)

\* a stored token
StoredToken(id, token, defaultSpecId, createdAt) ==
  [id |-> id, token |-> token, defaultSpecId |-> defaultSpecId, createdAt |-> createdAt]

\* a call is made while no other is in flight
MadeAlone(call) == calls = <<>> /\ Made(call)

\* the stores the list of specs is opened on: empty, a spec added from a
\* url, and a pasted spec with a spec added from a url (each with the
\* document the add cached), a token and a request in the history
SpecsInit ==
  /\ op = "specs"
  /\ \/ specs = <<>> /\ cache = <<>> /\ clock = 0
     \/ /\ specs = <<StoredSpec(1, <<"A">>, SpecUrl, 1)>>
        /\ cache = (1 :> Doc(TRUE, TRUE, FALSE, TRUE, 1))
        /\ clock = 1
     \/ /\ specs = <<StoredSpec(1, <<"P">>, PastedPrefix \o <<"1">>, 1),
                     StoredSpec(2, <<"A">>, SpecUrl, 2)>>
        /\ cache = (1 :> Doc(TRUE, FALSE, TRUE, FALSE, 2)) @@ (2 :> Doc(TRUE, TRUE, FALSE, TRUE, 1))
        /\ clock = 2
  /\ tokens = (1 :> StoredToken(1, Token, 1, 1))
  /\ history = StoredHistory(1)
  /\ calls = <<>>
  /\ hook = <<>>
  /\ out = <<>>
  /\ Idle
  /\ previous = Snapshot(FALSE, 0)

\* the call in flight ends: fn has returned or thrown
Ends(fn, result) ==
  /\ calls' = <<>>
  /\ op' = fn
  /\ out' = result

\* AddOpenAPISpec.onSubmit(values) is called
SubmitAddSpec ==
  \E sourceType \in {"url", "paste", "file"}, name \in {<<>>, <<"N">>} :
    /\ MadeAlone(Call("onSubmit", "resolve", [sourceType |-> sourceType, name |-> name], <<>>))
    /\ UNCHANGED <<op, out, history, clock, specs, cache, tokens, hook, idleVars>>

\* onSubmit: fetchSpec(values.url) or parseAndValidateSpec(content) returns
\* or throws, then the name is taken (spec.info.title of a document without
\* info throws) and the id generated
AddSpecResolves ==
  /\ calls # <<>> /\ calls[1].fn = "onSubmit" /\ calls[1].pc = "resolve"
  /\ \E doc \in DocPool \cup {ResolveFailure} :
       IF doc = ResolveFailure \/ ~IsOpenApiDocument(doc)
       THEN Ends("onSubmit", [failed |-> "resolve"]) /\ UNCHANGED clock
       ELSE IF calls[1].arg.name = <<>> /\ ~doc.hasInfo
       THEN Ends("onSubmit", [failed |-> "name"]) /\ UNCHANGED clock
       ELSE /\ clock' = clock + 1
            /\ calls' = <<Call("onSubmit", "cacheSpec", calls[1].arg,
                               [doc |-> doc,
                                newSpec |-> StoredSpec(clock', OrElse(calls[1].arg.name, InfoTitle),
                                                       sourceUrlOf(calls[1].arg.sourceType, clock'),
                                                       clock')])>>
            /\ UNCHANGED <<op, out>>
  /\ UNCHANGED <<previous, history, specs, cache, tokens, hook, idleVars>>

\* onSubmit: `await cacheSpec(specId, spec)` stores the document
AddSpecCaches ==
  /\ calls # <<>> /\ calls[1].fn = "onSubmit" /\ calls[1].pc = "cacheSpec"
  /\ cache' = setItem(cache, calls[1].local.newSpec.id, calls[1].local.doc)
  /\ calls' = <<[calls[1] EXCEPT !.pc = "addSpec"]>>
  /\ UNCHANGED <<op, out, previous, history, clock, specs, tokens, hook, idleVars>>

\* onSubmit: `await cacheSpec(specId, spec)` rejects
AddSpecCacheFails ==
  /\ calls # <<>> /\ calls[1].fn = "onSubmit" /\ calls[1].pc = "cacheSpec"
  /\ Ends("onSubmit", [failed |-> "cacheSpec"])
  /\ UNCHANGED <<previous, history, clock, specs, cache, tokens, hook, idleVars>>

\* onSubmit: `await addSpec({...}, specId)` stores the record; the form is done
AddSpecAdds ==
  /\ calls # <<>> /\ calls[1].fn = "onSubmit" /\ calls[1].pc = "addSpec"
  /\ specs' = addSpec(specs, calls[1].local.newSpec)
  /\ Ends("onSubmit", [added |-> calls[1].local.newSpec])
  /\ UNCHANGED <<previous, history, clock, cache, tokens, hook, idleVars>>

\* onSubmit: the write of addSpec rejects
AddSpecAddFails ==
  /\ calls # <<>> /\ calls[1].fn = "onSubmit" /\ calls[1].pc = "addSpec"
  /\ Ends("onSubmit", [failed |-> "addSpec"])
  /\ UNCHANGED <<previous, history, clock, specs, cache, tokens, hook, idleVars>>

\* deleteSpec(id) is called
CallDeleteSpec ==
  \E id \in SpecIds \cup {0} :
    /\ MadeAlone(Call("deleteSpec", "filter", id, <<>>))
    /\ UNCHANGED <<op, out, history, clock, specs, cache, tokens, hook, idleVars>>

\* deleteSpec: the list is read and filtered; nothing filtered out returns
\* false, otherwise the filtered list is stored
DeleteSpecWritesList ==
  /\ calls # <<>> /\ calls[1].fn = "deleteSpec" /\ calls[1].pc = "filter"
  /\ LET filtered == filterSpecs(specs, calls[1].arg)
     IN IF Len(filtered) = Len(specs)
        THEN Ends("deleteSpec", [id |-> calls[1].arg, returned |-> FALSE]) /\ UNCHANGED specs
        ELSE /\ specs' = filtered
             /\ calls' = <<[calls[1] EXCEPT !.pc = "removeCache"]>>
             /\ UNCHANGED <<op, out>>
  /\ UNCHANGED <<previous, history, clock, cache, tokens, hook, idleVars>>

\* deleteSpec: the cached document is removed and true returned
DeleteSpecRemovesCache ==
  /\ calls # <<>> /\ calls[1].fn = "deleteSpec" /\ calls[1].pc = "removeCache"
  /\ cache' = removeItem(cache, calls[1].arg)
  /\ Ends("deleteSpec", [id |-> calls[1].arg, returned |-> TRUE])
  /\ UNCHANGED <<previous, history, clock, specs, tokens, hook, idleVars>>

\* deleteSpec: LocalStorage.removeItem rejects, deleteSpec throws
DeleteSpecRemoveFails ==
  /\ calls # <<>> /\ calls[1].fn = "deleteSpec" /\ calls[1].pc = "removeCache"
  /\ Ends("deleteSpec", [id |-> calls[1].arg, failed |-> "removeItem"])
  /\ UNCHANGED <<previous, history, clock, specs, cache, tokens, hook, idleVars>>

\* duplicateSpec(id) is called and returns: null for an id that is not
\* stored, else the copy it pushed and stored
DuplicateSpec ==
  /\ calls = <<>>
  /\ previous.made < MaxOps
  /\ \E id \in SpecIds \cup {0} :
       IF id \in SpecIds
       THEN /\ clock' = clock + 1
            /\ specs' = Append(specs, duplicated(findSpec(specs, id), clock', clock'))
            /\ out' = [id |-> id, returned |-> specs'[Len(specs')]]
       ELSE /\ out' = [id |-> id, returned |-> Null]
            /\ UNCHANGED <<clock, specs>>
  /\ op' = "duplicateSpec"
  /\ previous' = Snapshot(previous.overlapped, previous.made + 1)
  /\ UNCHANGED <<calls, history, cache, tokens, hook, idleVars>>

\* updateSpec(id, {name}) is called and returns
UpdateSpec ==
  /\ calls = <<>>
  /\ previous.made < MaxOps
  /\ \E id \in SpecIds \cup {0} :
       /\ specs' = updateSpec(specs, id, <<"R">>)
       /\ out' = [id |-> id, returned |-> id \in SpecIds]
  /\ op' = "updateSpec"
  /\ previous' = Snapshot(previous.overlapped, previous.made + 1)
  /\ UNCHANGED <<calls, history, clock, cache, tokens, hook, idleVars>>

SpecsNext ==
  \/ SubmitAddSpec \/ AddSpecResolves \/ AddSpecCaches \/ AddSpecCacheFails
  \/ AddSpecAdds \/ AddSpecAddFails
  \/ CallDeleteSpec \/ DeleteSpecWritesList \/ DeleteSpecRemovesCache
  \/ DeleteSpecRemoveFails
  \/ DuplicateSpec \/ UpdateSpec

SpecsSpec == SpecsInit /\ [][SpecsNext]_vars

(***************************************************************************)
(* The stored tokens (src/lib/secure-storage.ts) and the hook's setToken   *)
(* (src/hooks/useOpenApiSpec.ts), one call at a time.                      *)
(*                                                                         *)
(* tokens  the items "api-token-v2-<id>": a function from token ids to     *)
(*         StoredToken [id, token, defaultSpecId, createdAt]               *)
(* clock   Date.now(): every saveToken reads a later time than the one     *)
(*         before it                                                       *)
(* hook    the hook's spec id and token state                              *)
(***************************************************************************)
\* the stored tokens of the set, one with the latest createdAt first
RECURSIVE NewestFirst(_)
NewestFirst(S) ==
  IF S = {} THEN <<>>
  ELSE LET newest == CHOOSE t \in S : \A u \in S : u.createdAt <= t.createdAt
       IN <<newest>> \o NewestFirst(S \ {newest})

\* the stored tokens of the set, one with the earliest createdAt first
RECURSIVE OldestFirst(_)
OldestFirst(S) ==
  IF S = {} THEN <<>>
  ELSE LET oldest == CHOOSE t \in S : \A u \in S : u.createdAt >= t.createdAt
       IN <<oldest>> \o OldestFirst(S \ {oldest})

\* listAllTokens without the reversal of the comparison
listAllTokens_OldestFirst(items) == OldestFirst({items[k] : k \in DOMAIN items})

\* listAllTokens(): the stored tokens sorted by creation date, newest first
listAllTokens(items) == NewestFirst({items[k] : k \in DOMAIN items})

\* getTokenForSpec(specId): allTokens.find(defaultSpecId === specId)?.token
getTokenForSpec(items, specId) ==
  LET allTokens == listAllTokens(items)
      matching == SelectSeq(allTokens, LAMBDA t : t.defaultSpecId = specId)
  IN IF matching = <<>> THEN Undefined ELSE matching[1].token

\* saveToken(data) at the time now: the item stored under the id
saveToken(items, id, token, defaultSpecId, now) ==
  setItem(items, id, StoredToken(id, token, defaultSpecId, now))

\* updateToken(tokenId, updates): { ...existing, ...updates } stored, or
\* nothing for an id that is not stored
updateToken(items, tokenId, token, defaultSpecId) ==
  IF tokenId \notin DOMAIN items THEN items
  ELSE setItem(items, tokenId,
               [items[tokenId] EXCEPT !.token = token, !.defaultSpecId = defaultSpecId])

\* the spec ids tokens are saved for
TokenSpecIds == {1, 2}

\* the token values saved
TokenValues == {Token, CustomToken}

\* the hook of a spec
TokenHook(specId, token) == [specId |-> specId, token |-> token]

\* a call made and returned in one step
Returned(fn, result) ==
  /\ calls = <<>>
  /\ previous.made < MaxOps
  /\ op' = fn
  /\ out' = result
  /\ previous' = Snapshot(previous.overlapped, previous.made + 1)

TokensInit ==
  /\ op = "tokens"
  /\ \/ tokens = <<>>
     \/ tokens = (1 :> StoredToken(1, Token, 1, 1))
     \/ tokens = (1 :> StoredToken(1, Token, 1, 1)) @@ (2 :> StoredToken(2, CustomToken, 2, 2))
  /\ clock = 2
  /\ \E specId \in TokenSpecIds : hook = TokenHook(specId, getTokenForSpec(tokens, specId))
  /\ specs = <<>> /\ cache = <<>> /\ history = <<>>
  /\ calls = <<>>
  /\ out = <<>>
  /\ Idle
  /\ previous = Snapshot(FALSE, 0)

\* saveToken(data) is called, with the id of a stored token or without
SaveToken ==
  \E token \in TokenValues, specId \in TokenSpecIds, given \in DOMAIN tokens \cup {0} :
    LET id == IF given = 0 THEN clock' ELSE given
    IN /\ clock' = clock + 1
       /\ tokens' = saveToken(tokens, id, token, specId, clock')
       /\ Returned("saveToken", tokens'[id])
       /\ UNCHANGED <<history, specs, cache, calls, hook, idleVars>>

\* updateToken(tokenId, {token, defaultSpecId}) is called
UpdateToken ==
  \E tokenId \in DOMAIN tokens \cup {0}, token \in TokenValues, specId \in TokenSpecIds :
    /\ tokens' = updateToken(tokens, tokenId, token, specId)
    /\ Returned("updateToken",
                IF tokenId \in DOMAIN tokens THEN tokens'[tokenId]
                ELSE StoredToken(0, Undefined, 0, 0))
    /\ UNCHANGED <<history, clock, specs, cache, calls, hook, idleVars>>

\* deleteToken(tokenId) is called
DeleteToken ==
  \E tokenId \in DOMAIN tokens \cup {0} :
    /\ tokens' = removeItem(tokens, tokenId)
    /\ Returned("deleteToken", StoredToken(tokenId, Undefined, 0, 0))
    /\ UNCHANGED <<history, clock, specs, cache, calls, hook, idleVars>>

\* the hook's setToken(newToken) is called: a token that is not empty is
\* saved with the spec as default, then the token state is set
SetToken ==
  \E newToken \in TokenValues \cup {Undefined, <<>>} :
    /\ IF newToken # Undefined /\ newToken # <<>>
       THEN /\ clock' = clock + 1
            /\ tokens' = saveToken(tokens, clock', newToken, hook.specId, clock')
       ELSE UNCHANGED <<clock, tokens>>
    /\ hook' = [hook EXCEPT !.token = newToken]
    /\ Returned("setToken", StoredToken(0, newToken, hook.specId, clock'))
    /\ UNCHANGED <<history, specs, cache, calls, idleVars>>

TokensNext == SaveToken \/ UpdateToken \/ DeleteToken \/ SetToken

TokensSpec == TokensInit /\ [][TokensNext]_vars

(***************************************************************************)
(* Browsing a spec: the loads of useOpenApiSpec                            *)
(* (src/hooks/useOpenApiSpec.ts), each advancing from one await to the     *)
(* next, with several in flight.                                           *)
(*                                                                         *)
(* hook   the views that use the hook, each with the spec it was given     *)
(*        and its state openApiSpec, endpoints, token, isLoading           *)
(* calls  the loads started, in the order of their start; a load that has  *)
(*        finished stays with pc "done"                                    *)
(***************************************************************************)
OtherUrl == <<"h", ":", "/", "/", "b", ".", "e", "/", "o">>

\* null: no document
NoDocument == Doc(FALSE, FALSE, FALSE, FALSE, 0)

\* the documents SwaggerParser.dereference(url) resolves to, at one time or
\* another: valid ones, one without paths, one without a version marker
DocsServedAt(url) ==
  IF url = SpecUrl
  THEN {Doc(TRUE, TRUE, FALSE, TRUE, 11), Doc(TRUE, FALSE, TRUE, TRUE, 12),
        Doc(FALSE, TRUE, FALSE, TRUE, 13)}
  ELSE {Doc(TRUE, TRUE, FALSE, TRUE, 21), Doc(TRUE, FALSE, FALSE, TRUE, 24)}

\* getCachedSpec(specId): the cached document or null
getCachedSpec(items, specId) ==
  IF specId \in DOMAIN items THEN items[specId] ELSE NoDocument

\* parseEndpoints(loadedSpec), by the document parsed
endpointsOf(doc) == IF doc.hasPaths THEN <<doc.rev>> ELSE <<>>

\* the state of the hook in a view
View(given, openApiSpec, endpoints, token, isLoading) ==
  [spec |-> given, openApiSpec |-> openApiSpec, endpoints |-> endpoints,
   token |-> token, isLoading |-> isLoading]

\* the stored specs that are browsed
BrowsedSpecs == <<StoredSpec(1, <<"A">>, SpecUrl, 1), StoredSpec(2, <<"B">>, OtherUrl, 2)>>

\* load() of the view for the spec it has
Load(view, given) ==
  Call("load", "getCachedSpec", [view |-> view, spec |-> given],
       [loadedSpec |-> NoDocument, fetched |-> NoDocument,
        overlaps |-> \E i \in 1..Len(calls) : calls[i].pc # "done"])

\* the load is at the step
At(i, pc) == calls[i].fn = "load" /\ calls[i].pc = pc

\* the load goes on to the step with the document
Goes(i, pc, loadedSpec, doc) ==
  calls' = [calls EXCEPT ![i].pc = pc, ![i].local.loadedSpec = loadedSpec,
                         ![i].local.fetched = doc]

BrowseInit ==
  /\ op = "browse"
  /\ specs = BrowsedSpecs
  /\ cache \in {<<>>, (2 :> Doc(TRUE, TRUE, FALSE, TRUE, 21))}
  /\ tokens = (1 :> StoredToken(1, Token, 1, 1)) @@ (2 :> StoredToken(2, CustomToken, 2, 2))
  /\ clock = 2
  /\ history = <<>>
  /\ calls = <<>>
  /\ hook = <<>>
  /\ out = <<>>
  /\ Idle
  /\ previous = Snapshot(FALSE, 0)

\* a view is opened on a stored spec: useState gives the first state, the
\* effect runs load(), which sets isLoading
Browse ==
  \E i \in 1..Len(specs) :
    /\ Made(Load(Len(hook) + 1, specs[i]))
    /\ hook' = Append(hook, View(specs[i], NoDocument, <<>>, Undefined, TRUE))
    /\ UNCHANGED <<op, out, history, clock, specs, cache, tokens, idleVars>>

\* a view is given another spec: the effect runs again
SpecChanges ==
  \E v \in 1..Len(hook), i \in 1..Len(specs) :
    /\ specs[i].id # hook[v].spec.id
    /\ Made(Load(v, specs[i]))
    /\ hook' = [hook EXCEPT ![v].spec = specs[i], ![v].isLoading = TRUE]
    /\ UNCHANGED <<op, out, history, clock, specs, cache, tokens, idleVars>>

\* load: `await getCachedSpec(spec.id)` returns
LoadReadsCache ==
  \E i \in 1..Len(calls) :
    /\ At(i, "getCachedSpec")
    /\ LET cached == getCachedSpec(cache, calls[i].arg.spec.id)
       IN IF cached = NoDocument
          THEN Goes(i, "fetchSpec", NoDocument, NoDocument)
          ELSE Goes(i, "setOpenApiSpec", cached, NoDocument)
    /\ UNCHANGED <<op, out, previous, history, clock, specs, cache, tokens, hook, idleVars>>

\* fetchSpec: SwaggerParser.dereference(url) returns or throws, and the
\* document is validated
FetchResolves ==
  \E i \in 1..Len(calls) :
    /\ At(i, "fetchSpec")
    /\ \E doc \in DocsServedAt(calls[i].arg.spec.url) \cup {ResolveFailure} :
         IF doc = ResolveFailure \/ ~IsOpenApiDocument(doc)
         THEN Goes(i, "catch", NoDocument, NoDocument)
         ELSE Goes(i, "cacheSpec", NoDocument, doc)
    /\ UNCHANGED <<op, out, previous, history, clock, specs, cache, tokens, hook, idleVars>>

\* fetchSpec: `await cacheSpec(specId, spec)` stores the document, which
\* fetchSpec returns
FetchCaches ==
  \E i \in 1..Len(calls) :
    /\ At(i, "cacheSpec")
    /\ cache' = setItem(cache, calls[i].arg.spec.id, calls[i].local.fetched)
    /\ Goes(i, "setOpenApiSpec", calls[i].local.fetched, calls[i].local.fetched)
    /\ UNCHANGED <<op, out, previous, history, clock, specs, tokens, hook, idleVars>>

\* load: setOpenApiSpec(loadedSpec); setEndpoints(parseEndpoints(loadedSpec))
LoadSetsSpec ==
  \E i \in 1..Len(calls) :
    /\ At(i, "setOpenApiSpec")
    /\ hook' = [hook EXCEPT ![calls[i].arg.view].openApiSpec = calls[i].local.loadedSpec,
                            ![calls[i].arg.view].endpoints = endpointsOf(calls[i].local.loadedSpec)]
    /\ calls' = [calls EXCEPT ![i].pc = "getTokenForSpec"]
    /\ UNCHANGED <<op, out, previous, history, clock, specs, cache, tokens, idleVars>>

\* load: `await getTokenForSpec(spec.id)` returns, setTokenState(savedToken),
\* and finally setIsLoading(false)
LoadSetsToken ==
  \E i \in 1..Len(calls) :
    /\ At(i, "getTokenForSpec")
    /\ hook' = [hook EXCEPT ![calls[i].arg.view].token =
                              getTokenForSpec(tokens, calls[i].arg.spec.id),
                            ![calls[i].arg.view].isLoading = FALSE]
    /\ calls' = [calls EXCEPT ![i].pc = "done"]
    /\ op' = "load"
    /\ out' = [view |-> calls[i].arg.view, failed |-> FALSE]
    /\ UNCHANGED <<previous, history, clock, specs, cache, tokens, idleVars>>

\* load: the catch shows "Failed to load spec", and finally setIsLoading(false)
LoadCatches ==
  \E i \in 1..Len(calls) :
    /\ At(i, "catch")
    /\ hook' = [hook EXCEPT ![calls[i].arg.view].isLoading = FALSE]
    /\ calls' = [calls EXCEPT ![i].pc = "done"]
    /\ op' = "load"
    /\ out' = [view |-> calls[i].arg.view, failed |-> TRUE]
    /\ UNCHANGED <<previous, history, clock, specs, cache, tokens, idleVars>>

BrowseNext ==
  \/ Browse \/ SpecChanges
  \/ LoadReadsCache \/ FetchResolves \/ FetchCaches
  \/ LoadSetsSpec \/ LoadSetsToken \/ LoadCatches

BrowseSpec == BrowseInit /\ [][BrowseNext]_vars

(***************************************************************************)
(* Properties                                                              *)
(***************************************************************************)
\* the url of the command: its last part without the double quotes
CommandUrl == SubSeq(parts[Len(parts)], 2, Len(parts[Len(parts)]) - 1)

\* a value was supplied for the parameter
Supplied(param) == Truthy(Lookup(options.paramValues, param.name))

RECURSIVE ReplaceEvery(_, _, _)
\* s with every occurrence of pat replaced by rep
ReplaceEvery(s, pat, rep) ==
  IF s = <<>> THEN <<>>
  ELSE IF MatchAt(s, pat, 1)
  THEN rep \o ReplaceEvery(SubSeq(s, Len(pat) + 1, Len(s)), pat, rep)
  ELSE <<Head(s)>> \o ReplaceEvery(Tail(s), pat, rep)

RECURSIVE PathWithValues(_, _)
\* the path template with the placeholder of every supplied path parameter
\* replaced by its url-encoded value, the other placeholders left in place
PathWithValues(path, pathParams) ==
  IF pathParams = <<>> THEN path
  ELSE PathWithValues(
         IF Supplied(Head(pathParams))
         THEN ReplaceEvery(path, Brace(Head(pathParams).name),
                           encodeURIComponent(Lookup(options.paramValues, Head(pathParams).name)))
         ELSE path,
         Tail(pathParams))

\* C1: the url of generateCurl is baseUrl, unchanged, followed by the path
\* template in which the placeholder of every supplied path parameter is
\* replaced by the url-encoded value and every other placeholder is kept.
C1_PathPlaceholdersSubstituted ==
  op = "generateCurl" =>
    MatchAt(CommandUrl,
            options.baseUrl \o PathWithValues(endpoint.path, getPathParams(endpoint)), 1)

\* the header token -H "name: value"
HeaderToken(name, text) == DashH \o name \o <<":", " ">> \o text \o <<"\"">>

\* a parameter rendered with a text: name=<text> in the query string,
\* -H "name: <text>" among the headers
Rendered(kind, name, text) ==
  IF kind = "query" THEN name \o <<"=">> \o text ELSE HeaderToken(name, text)

RECURSIVE ThreeWayRule(_, _, _)
\* what a list of parameters emits from position i on: the rendering with the
\* value (url-encoded in the query string) when one is supplied, the rendering
\* with the placeholder {name} when the parameter is required, nothing otherwise
ThreeWayRule(params, kind, i) ==
  IF i > Len(params) THEN <<>>
  ELSE LET name == params[i].name
           value == Lookup(options.paramValues, name)
       IN (IF Supplied(params[i])
           THEN <<Rendered(kind, name,
                           IF kind = "query" THEN encodeURIComponent(value) ELSE value)>>
           ELSE IF params[i].required
           THEN <<Rendered(kind, name, Brace(name))>>
           ELSE <<>>)
          \o ThreeWayRule(params, kind, i + 1)

\* the query parts the rule asks for: name=<url-encoded value> or name={name}
ExpectedQueryParts == ThreeWayRule(getQueryParams(endpoint), "query", 1)

\* the header tokens the rule asks for: -H "name: value" or -H "name: {name}"
ExpectedHeaderTokens == ThreeWayRule(getHeaderParams(endpoint), "header", 1)

\* the part of the url from its first question mark on
QueryString ==
  IF Includes(CommandUrl, <<"?">>)
  THEN SubSeq(CommandUrl, IndexOf(CommandUrl, <<"?">>), Len(CommandUrl))
  ELSE <<>>

\* the token is the header of a declared header parameter
IsHeaderParamToken(t) ==
  \E i \in 1..Len(endpoint.parameters) :
    /\ endpoint.parameters[i].in = "header"
    /\ MatchAt(t, DashH \o endpoint.parameters[i].name \o <<":", " ">>, 1)

\* C2: query and header parameters follow the same three-way rule in source
\* order (value, placeholder when required, nothing when optional), and the
\* query string is there exactly when a query part was emitted.
C2_QueryAndHeaderRule ==
  op = "generateCurl" =>
    /\ QueryString = (IF ExpectedQueryParts = <<>> THEN <<>>
                      ELSE <<"?">> \o Join(ExpectedQueryParts, <<"&">>))
    /\ SelectSeq(parts, IsHeaderParamToken) = ExpectedHeaderTokens

\* C2 witness: a required and an optional query parameter, neither supplied
C2_Witness ==
  /\ op = "generateCurl"
  /\ \E i, j \in 1..Len(endpoint.parameters) :
       /\ endpoint.parameters[i].in = "query" /\ endpoint.parameters[i].required
       /\ endpoint.parameters[j].in = "query" /\ ~endpoint.parameters[j].required
       /\ ~Supplied(endpoint.parameters[i]) /\ ~Supplied(endpoint.parameters[j])
  /\ QueryString = <<"?", "q", "=", "{", "q", "}">>

\* the token is an authentication header: Authorization, or the api-key header
IsAuthToken(t) ==
  \/ MatchAt(t, DashH \o SubSeq(AuthBearer, 1, 15), 1)
  \/ MatchAt(t, DashH \o (IF options.authHeader = Undefined THEN XApiKey ELSE options.authHeader)
                   \o <<":", " ">>, 1)

\* C3: with a token exactly one authentication header is emitted, chosen by
\* authType (default bearer; the api-key header defaults to X-API-Key; basic
\* takes the token verbatim) and the placeholder is absent; without a token
\* the placeholder header is emitted exactly when hasAuth, else no header.
C3_AuthHeader ==
  op = "generateCurl" =>
    LET auth == SelectSeq(parts, IsAuthToken)
        token == options.authToken
    IN IF Truthy(token)
       THEN /\ ~Includes(out, YourToken)
            /\ auth = <<CASE options.authType \in {"bearer", "undefined"} ->
                               HeaderToken(SubSeq(AuthBearer, 1, 13), <<"B", "e", "a", "r", "e", "r", " ">> \o token)
                          [] options.authType = "api-key" ->
                               HeaderToken(IF options.authHeader = Undefined THEN XApiKey
                                           ELSE options.authHeader, token)
                          [] options.authType = "basic" ->
                               HeaderToken(SubSeq(AuthBearer, 1, 13), <<"B", "a", "s", "i", "c", " ">> \o token)>>
       ELSE IF endpoint.hasAuth
       THEN auth = <<HeaderToken(SubSeq(AuthBearer, 1, 13), <<"B", "e", "a", "r", "e", "r", " ">> \o YourToken)>>
       ELSE auth = <<>>

\* C3 witness: an api-key token with a custom header name has been rendered
C3_Witness ==
  /\ op = "generateCurl"
  /\ Truthy(options.authToken)
  /\ options.authType = "api-key"
  /\ options.authHeader = <<"K">>
  /\ parts[Len(parts) - 1] = <<"-", "H", " ", "\"", "K", ":", " ", "a", "b", "c", "1", "2", "3", "\"">>

RECURSIVE ShellScan(_, _, _, _)
\* what a POSIX shell reads from position i of the text s as one word: outside
\* quotes a single quote or a double quote opens a quotation, a backslash
\* keeps the next character (and removes a newline), a blank or an operator
\* character ends the word; between single quotes every character is kept up
\* to the next single quote; between double quotes a backslash escapes only
\* \ " and newline. ok tells that the whole text was one well-formed word.
ShellScan(s, i, mode, word) ==
  IF i > Len(s) THEN [ok |-> mode = "plain", word |-> word]
  ELSE CASE mode = "single" ->
              IF s[i] = "'" THEN ShellScan(s, i + 1, "plain", word)
              ELSE ShellScan(s, i + 1, "single", Append(word, s[i]))
         [] mode = "double" ->
              IF s[i] = "\"" THEN ShellScan(s, i + 1, "plain", word)
              ELSE IF s[i] = "\\" /\ i < Len(s) /\ s[i + 1] \in {"\\", "\""}
              THEN ShellScan(s, i + 2, "double", Append(word, s[i + 1]))
              ELSE IF s[i] = "\\" /\ i < Len(s) /\ s[i + 1] = "\n"
              THEN ShellScan(s, i + 2, "double", word)
              ELSE ShellScan(s, i + 1, "double", Append(word, s[i]))
         [] OTHER ->
              IF s[i] = "'" THEN ShellScan(s, i + 1, "single", word)
              ELSE IF s[i] = "\"" THEN ShellScan(s, i + 1, "double", word)
              ELSE IF s[i] = "\\"
              THEN IF i = Len(s) THEN [ok |-> FALSE, word |-> word]
                   ELSE IF s[i + 1] = "\n" THEN ShellScan(s, i + 2, "plain", word)
                   ELSE ShellScan(s, i + 2, "plain", Append(word, s[i + 1]))
              ELSE IF s[i] \in {" ", "\t", "\n", ";", "&", "|", "<", ">", "(", ")"}
              THEN [ok |-> FALSE, word |-> word]
              ELSE ShellScan(s, i + 1, "plain", Append(word, s[i]))

\* the argument a shell passes for the text of a -d token after `-d `
ShellArgument(token) == ShellScan(SubSeq(token, 4, Len(token)), 1, "plain", <<>>)

\* generateCurl emits a body: request body and POST, PUT or PATCH
EmitsBody == endpoint.requestBody.present /\ endpoint.method \in {POST, PUT, PATCH}

\* the -d token of the command: the part before the url
DataToken == parts[Len(parts) - 1]

\* C4: the single-quoted argument after -d, read by a POSIX shell, is the body
\* exactly, for the explicit bodyJson and for the synthesized example body.
C4_BodyShellRoundTrip ==
  (op = "generateCurl" /\ EmitsBody) =>
    /\ Truthy(options.bodyJson) =>
         ShellArgument(DataToken) = [ok |-> TRUE, word |-> options.bodyJson]
    /\ (~Truthy(options.bodyJson) /\ options.includeExampleBody) =>
         ShellArgument(DataToken) = [ok |-> TRUE, word |-> generateExampleBody(endpoint)]

\* C5: a Content-Type header and a -d argument are emitted exactly when the
\* endpoint has a request body and its method is POST, PUT or PATCH, and the
\* -d content is bodyJson if provided, else the example body if
\* includeExampleBody is set, else the placeholder <REQUEST_BODY>.
C5_BodyEmission ==
  op = "generateCurl" =>
    /\ (\E i \in 1..Len(parts) : MatchAt(parts[i], DashD, 1)) <=> EmitsBody
    /\ (\E i \in 1..Len(parts) : MatchAt(parts[i], DashH \o ContentTypeColon, 1)) <=> EmitsBody
    /\ EmitsBody =>
         /\ MatchAt(parts[Len(parts) - 2], DashH \o ContentTypeColon, 1)
         /\ IF Truthy(options.bodyJson)
            THEN ShellArgument(DataToken) = [ok |-> TRUE, word |-> options.bodyJson]
            ELSE IF options.includeExampleBody
            THEN DataToken = DashD \o generateExampleBody(endpoint) \o <<"'">>
            ELSE DataToken = DashD \o RequestBodyPlaceholder \o <<"'">>

\* C5 witness: bodyJson and includeExampleBody are both given, for a schema
\* whose example body is not {}, and bodyJson is what -d carries
C5_Witness ==
  /\ op = "generateCurl"
  /\ EmitsBody
  /\ options.bodyJson = <<"{", "\n", " ", "\"", "a", "\"", ":", "1", "\n", "}">>
  /\ options.includeExampleBody
  /\ generateExampleBody(endpoint) # EmptyObjectText
  /\ DataToken = DashD \o options.bodyJson \o <<"'">>

\* the content types the claim names, most preferred first
ClaimedPreference == <<AppJson, AppMergePatch, AppJsonPatch, TextJson>>

\* the content type the claim gives an endpoint: the most preferred declared
\* one, else the first declared key, else null
ClaimedContentType ==
  LET body == endpoint.requestBody
      declared == {i \in 1..Len(ClaimedPreference) : HasKey(body.content, ClaimedPreference[i])}
  IN IF ~body.present \/ ~body.hasContent \/ body.content = <<>> THEN Null
     ELSE IF declared # {}
     THEN ClaimedPreference[CHOOSE i \in declared : \A j \in declared : i <= j]
     ELSE body.content[1].key

\* C6: getRequestBodyContentType returns the first declared of
\* application/json, application/merge-patch+json, application/json-patch+json,
\* text/json, else the first declared key, else null; the Content-Type header
\* of generateCurl carries it (application/json when null), so a body that
\* declares only application/merge-patch+json is sent as such.
C6_ContentType ==
  op = "generateCurl" =>
    /\ getRequestBodyContentType(endpoint) = ClaimedContentType
    /\ EmitsBody =>
         parts[Len(parts) - 2] =
           HeaderToken(SubSeq(ContentTypeColon, 1, 12),
                       IF ClaimedContentType = Null THEN AppJson ELSE ClaimedContentType)
    /\ (EmitsBody /\ endpoint.requestBody.hasContent
          /\ ContentKeys(endpoint.requestBody.content) = <<AppMergePatch>>) =>
         Includes(out, ContentTypeColon \o AppMergePatch \o <<"\"">>)

\* C6 witness: a body declaring only application/merge-patch+json was rendered
C6_Witness ==
  /\ op = "generateCurl"
  /\ EmitsBody
  /\ endpoint.requestBody.hasContent
  /\ ContentKeys(endpoint.requestBody.content) = <<AppMergePatch>>
  /\ parts[Len(parts) - 2] = DashH \o ContentTypeColon \o AppMergePatch \o <<"\"">>

\* C7: the output of generateCompactCurl holds no newline character.
C7_CompactIsOneLine ==
  op = "generateCompactCurl" => \A i \in 1..Len(out) : out[i] # "\n"

\* C8: generateCompactCurl is generateCurl with every separator between tokens
\* collapsed to one space and every token left as it is: the tokens of the
\* multi-line form joined by single spaces.
C8_CompactKeepsTokens ==
  op = "generateCompactCurl" => out = Join(parts, <<" ">>)

\* the place of a token in the claimed order
TokenClass(t) ==
  CASE t = CurlWord -> 0
    [] MatchAt(t, DashX, 1) -> 1
    [] IsAuthToken(t) -> 2
    [] IsHeaderParamToken(t) -> 3
    [] MatchAt(t, DashH \o ContentTypeColon, 1) -> 4
    [] MatchAt(t, DashD, 1) -> 5
    [] MatchAt(t, <<"\"">>, 1) -> 6
    [] OTHER -> 7

\* curl, -X METHOD iff not GET, the authentication header, the header
\* parameters, Content-Type, -d, and the double-quoted url last
TokenOrder ==
  op = "generateCurl" =>
    /\ parts[1] = CurlWord
    /\ endpoint.method # GET => parts[2] = DashX \o endpoint.method
    /\ (\E i \in 1..Len(parts) : TokenClass(parts[i]) = 1) <=> endpoint.method # GET
    /\ \A i \in 1..Len(parts) : TokenClass(parts[i]) < 7
    /\ \A i, j \in 1..Len(parts) :
         i < j => \/ TokenClass(parts[i]) < TokenClass(parts[j])
                  \/ TokenClass(parts[i]) = 3 /\ TokenClass(parts[j]) = 3
    /\ TokenClass(parts[Len(parts)]) = 6
    /\ parts[Len(parts)][Len(parts[Len(parts)])] = "\""

\* a GET endpoint without authentication, query or header parameters or body,
\* every path parameter supplied
SimplestCase ==
  /\ endpoint.method = GET
  /\ ~Truthy(options.authToken) /\ ~endpoint.hasAuth
  /\ getQueryParams(endpoint) = <<>> /\ getHeaderParams(endpoint) = <<>>
  /\ ~endpoint.requestBody.present
  /\ \A i \in 1..Len(endpoint.parameters) :
       endpoint.parameters[i].in = "path" => Supplied(endpoint.parameters[i])

\* the compact command of the simplest case is curl "<baseUrl><substituted path>"
SimplestCommand ==
  (op = "generateCompactCurl" /\ SimplestCase) =>
    out = CurlWord \o <<" ">>
          \o DQuote(options.baseUrl \o PathWithValues(endpoint.path, getPathParams(endpoint)))

\* C9: the tokens come in one fixed order (curl, -X METHOD iff not GET, the
\* authentication header, the header parameters, Content-Type and -d, the
\* double-quoted url last), hence in the simplest case the compact command is
\* exactly curl "<baseUrl><substituted path>".
C9_TokenOrderAndSimplestCommand == TokenOrder /\ SimplestCommand

\* the method a method key of a path item stands for
KeyMethod ==
  (KGet :> GET) @@ (KPost :> POST) @@ (KPut :> PUT) @@ (KPatch :> PATCH)
  @@ (KDelete :> DELETE) @@ (KOptions :> <<"O", "P", "T", "I", "O", "N", "S">>)
  @@ (KHead :> <<"H", "E", "A", "D">>)

\* the (path, method key) pairs of the document
DefinedOperations ==
  IF ~spec.hasPaths THEN {}
  ELSE UNION {{<<i, k>> : k \in DOMAIN spec.paths[i].item \cap DOMAIN KeyMethod} :
                i \in 1..Len(spec.paths)}

\* C10: parseEndpoints yields exactly one endpoint per (path, method) pair of
\* spec.paths among the seven method keys, the method uppercased and hasAuth
\* true iff the security array is present and non-empty; the count is the
\* number of defined method keys, and it is empty without operations or paths.
C10_ExtractionComplete ==
  op = "parseEndpoints" =>
    /\ Len(out) = Cardinality(DefinedOperations)
    /\ \A d \in DefinedOperations :
         LET operation == spec.paths[d[1]].item[d[2]]
             found == {n \in 1..Len(out) : /\ out[n].path = spec.paths[d[1]].path
                                           /\ out[n].method = KeyMethod[d[2]]}
         IN /\ Cardinality(found) = 1
            /\ \A n \in found :
                 out[n].hasAuth <=> (operation.security.present /\ operation.security.reqs # <<>>)
    /\ DefinedOperations = {} => out = <<>>

\* C10 witness: seven operations on two paths were extracted, HEAD among
\* them, some requiring authentication and one with an empty security array
C10_Witness ==
  /\ op = "parseEndpoints"
  /\ Len(out) = 7
  /\ \E n \in 1..Len(out) : out[n].method = <<"H", "E", "A", "D">> /\ out[n].hasAuth
  /\ \E n \in 1..Len(out) : out[n].method = GET /\ ~out[n].hasAuth
  /\ \E i \in 1..Len(spec.paths) :
       KGet \in DOMAIN spec.paths[i].item /\ spec.paths[i].item[KGet].security.present

\* the place of a method in the string order
\* DELETE < GET < HEAD < OPTIONS < PATCH < POST < PUT
MethodRank ==
  (DELETE :> 1) @@ (GET :> 2) @@ (<<"H", "E", "A", "D">> :> 3)
  @@ (<<"O", "P", "T", "I", "O", "N", "S">> :> 4) @@ (PATCH :> 5) @@ (POST :> 6)
  @@ (PUT :> 7)

TagsOrUntagged(e) == IF e.tags = <<>> THEN <<Untagged>> ELSE e.tags

\* the group names in order of first occurrence over the endpoints
FirstOccurrences(endpoints) ==
  LET all == Flatten([i \in 1..Len(endpoints) |-> TagsOrUntagged(endpoints[i])])
  IN SelectSeq([i \in 1..Len(all) |-> [tag |-> all[i], first |-> \A j \in 1..(i - 1) : all[j] # all[i]]],
               LAMBDA x : x.first)

\* the position of an endpoint in the input sequence
InputIndex(e) == CHOOSE i \in 1..Len(previous) : previous[i] = e

\* C12: the keys of groupEndpointsByTag come in order of first occurrence;
\* an endpoint with tags is in the group of each of its tags, an endpoint
\* without tags is in the group Untagged and in no other; a group holds
\* endpoints of the input only, each carrying the group's name, in the order
\* of the input; no endpoint is dropped.
C12_GroupingFanOut ==
  op = "groupEndpointsByTag" =>
    /\ GroupKeys(out) = [i \in 1..Len(FirstOccurrences(previous)) |->
                           FirstOccurrences(previous)[i].tag]
    /\ \A i \in 1..Len(previous) :
         LET e == previous[i]
             groups == {g \in 1..Len(out) : \E n \in 1..Len(out[g].endpoints) :
                                               out[g].endpoints[n] = e}
         IN /\ groups # {}
            /\ \A t \in 1..Len(e.tags) : \E g \in groups : out[g].tag = e.tags[t]
            /\ e.tags = <<>> => \A g \in groups : out[g].tag = Untagged
    /\ \A g \in 1..Len(out) :
         LET es == out[g].endpoints
         IN /\ \A n \in 1..Len(es) :
                 /\ \E i \in 1..Len(previous) : previous[i] = es[n]
                 /\ \E t \in 1..Len(TagsOrUntagged(es[n])) :
                      TagsOrUntagged(es[n])[t] = out[g].tag
            /\ \A m, n \in 1..Len(es) : m < n => InputIndex(es[m]) <= InputIndex(es[n])

\* C12 witness: an endpoint tagged A and B is in both groups, an endpoint
\* without tags is in Untagged, and the first key is not the first in name order
C12_Witness ==
  /\ op = "groupEndpointsByTag"
  /\ \E i, j \in 1..Len(previous) :
       /\ previous[i].tags = <<TagA, TagB>>
       /\ previous[j].tags = <<>>
       /\ \E n \in 1..Len(GroupOf(out, TagA)) : GroupOf(out, TagA)[n] = previous[i]
       /\ \E n \in 1..Len(GroupOf(out, TagB)) : GroupOf(out, TagB)[n] = previous[i]
       /\ \E n \in 1..Len(GroupOf(out, Untagged)) : GroupOf(out, Untagged)[n] = previous[j]
  /\ out[1].tag = TagB
  /\ Len(out) = 3

\* the position of a parameter in endpoint.parameters
ParamIndex(p) == CHOOSE i \in 1..Len(endpoint.parameters) : endpoint.parameters[i] = p

\* the result holds exactly the parameters of the endpoint whose `in` is
\* kind, in source order
ExactlyOfKind(result, kind) ==
  /\ \A n \in 1..Len(result) :
       /\ \E i \in 1..Len(endpoint.parameters) : endpoint.parameters[i] = result[n]
       /\ result[n].in = kind
  /\ \A i \in 1..Len(endpoint.parameters) :
       endpoint.parameters[i].in = kind =>
         \E n \in 1..Len(result) : result[n] = endpoint.parameters[i]
  /\ \A m, n \in 1..Len(result) : m < n => ParamIndex(result[m]) < ParamIndex(result[n])

\* the parameters of a result, as a set
Members(result) == {result[n] : n \in 1..Len(result)}

\* the endpoint declares the cookie parameter
DeclaresCookie ==
  \E i \in 1..Len(endpoint.parameters) : endpoint.parameters[i].in = "cookie"

\* C13: getPathParams, getQueryParams and getHeaderParams return exactly the
\* parameters whose `in` is path, query and header, in source order; the
\* results are pairwise disjoint; a cookie parameter is in none of them and
\* its name does not occur in the generated command nor in the url and the
\* headers of a live request.
C13_FiltersPartition ==
  /\ op = "filterParameters" =>
       /\ ExactlyOfKind(out.path, "path")
       /\ ExactlyOfKind(out.query, "query")
       /\ ExactlyOfKind(out.header, "header")
       /\ Members(out.path) \cap Members(out.query) = {}
       /\ Members(out.path) \cap Members(out.header) = {}
       /\ Members(out.query) \cap Members(out.header) = {}
       /\ \A i \in 1..Len(endpoint.parameters) :
            endpoint.parameters[i].in = "cookie" =>
              endpoint.parameters[i] \notin
                Members(out.path) \cup Members(out.query) \cup Members(out.header)
       /\ Cardinality(Members(out.path) \cup Members(out.query) \cup Members(out.header))
            = Cardinality({i \in 1..Len(endpoint.parameters) :
                             endpoint.parameters[i].in # "cookie"})
  /\ (op \in {"generateCurl", "generateCompactCurl"} /\ DeclaresCookie) =>
       ~Includes(out, NCookie)
  /\ \A i \in 1..Len(fetched) :
       DeclaresCookie =>
         /\ ~Includes(fetched[i].url, NCookie)
         /\ \A h \in 1..Len(fetched[i].headers) : fetched[i].headers[h].name # NCookie

\* C13 witness: a header parameter and a cookie parameter with a value
C13_Witness ==
  /\ op = "filterParameters"
  /\ Len(endpoint.parameters) = 2
  /\ endpoint.parameters[1].in = "cookie"
  /\ endpoint.parameters[2].in = "header"
  /\ Truthy(Lookup(options.paramValues, NCookie))
  /\ out.header = <<endpoint.parameters[2]>>
  /\ out.path = <<>> /\ out.query = <<>>

\* the media type the claim selects: application/json, else
\* application/merge-patch+json, else the first declared entry
ClaimedMediaType ==
  LET content == endpoint.requestBody.content
      at(key) == content[CHOOSE i \in 1..Len(content) : content[i].key = key]
  IN IF \E i \in 1..Len(content) : content[i].key = AppJson THEN at(AppJson)
     ELSE IF \E i \in 1..Len(content) : content[i].key = AppMergePatch THEN at(AppMergePatch)
     ELSE content[1]

C14_SentinelReached ==
  /\ op = "getBodyParams"
  /\ ~endpoint.requestBody.required
  /\ Len(out) = 1 /\ out[1].name = BodySentinel /\ ~out[1].required

\* the JSON media types the request body declares, as places in the claimed
\* preference
DeclaredJsonTypes ==
  {i \in 1..Len(ClaimedPreference) :
     \E n \in 1..Len(endpoint.requestBody.content) :
       endpoint.requestBody.content[n].key = ClaimedPreference[i]}

\* the schema of the selected JSON media type: of the most preferred declared one
SelectedJsonSchema ==
  LET content == endpoint.requestBody.content
      key == ClaimedPreference[CHOOSE i \in DeclaredJsonTypes : \A j \in DeclaredJsonTypes : i <= j]
  IN content[CHOOSE n \in 1..Len(content) : content[n].key = key].schema

\* the example body the claim gives a schema: one field per property of an
\* object-typed schema with properties (example, else default, else the typed
\* default), the text {} otherwise
ClaimedExampleBody(schema) ==
  IF schema.present /\ schema.type = TObject /\ schema.hasProps
  THEN JsonStringify2([i \in 1..Len(schema.props) |->
         [key |-> schema.props[i].key,
          value |-> IF schema.props[i].example # JUndef THEN schema.props[i].example
                    ELSE IF schema.props[i].default # JUndef THEN schema.props[i].default
                    ELSE getDefaultValue(schema.props[i].type, schema.props[i].format)]])
  ELSE EmptyObjectText

\* C15: the example body generateCurl emits is built from the schema of the
\* selected JSON media type of the request body: one field per property for
\* an object-typed schema with properties, the text {} for a body without
\* content, without schema or not object-typed.
C15_ExampleBody ==
  (op = "generateCurl" /\ EmitsBody /\ ~Truthy(options.bodyJson) /\ options.includeExampleBody) =>
    /\ (~endpoint.requestBody.hasContent \/ endpoint.requestBody.content = <<>>) =>
         DataToken = DashD \o EmptyObjectText \o <<"'">>
    /\ DeclaredJsonTypes # {} =>
         DataToken = DashD \o ClaimedExampleBody(SelectedJsonSchema) \o <<"'">>

\* the lowercased header name contains one of the names the claim lists
ClaimedSensitive(name) ==
  \E h \in {<<"a", "u", "t", "h", "o", "r", "i", "z", "a", "t", "i", "o", "n">>,
            <<"x", "-", "a", "p", "i", "-", "k", "e", "y">>,
            <<"a", "p", "i", "-", "k", "e", "y">>,
            <<"t", "o", "k", "e", "n">>,
            <<"b", "e", "a", "r", "e", "r">>} :
    \E i \in 1..Len(name) : MatchAt(toLowerCase(name), h, i)

\* C16: maskSensitiveHeaders replaces the value of every header whose
\* lowercased name contains authorization, x-api-key, api-key, token or
\* bearer by its first 4 characters, ****, and its last 4 characters when it
\* is longer than 8 characters and by **** otherwise; every other header is
\* returned unchanged, and the record given is not modified.
C16_Masking ==
  op = "maskSensitiveHeaders" =>
    /\ headers = previous
    /\ Len(out) = Len(headers)
    /\ \A i \in 1..Len(headers) :
         LET value == headers[i].value
         IN /\ out[i].name = headers[i].name
            /\ out[i].value =
                 (IF ~ClaimedSensitive(headers[i].name) THEN value
                  ELSE IF Len(value) > 8
                  THEN <<value[1], value[2], value[3], value[4], "*", "*", "*", "*",
                         value[Len(value) - 3], value[Len(value) - 2],
                         value[Len(value) - 1], value[Len(value)]>>
                  ELSE <<"*", "*", "*", "*">>)

\* C16 witness: an Authorization value of 8 characters and a value of 23
\* characters under a name that holds TOKEN in upper case
C16_Witness ==
  /\ op = "maskSensitiveHeaders"
  /\ Len(headers) = 2
  /\ headers[1].name = <<"A", "u", "t", "h", "o", "r", "i", "z", "a", "t", "i", "o", "n">>
  /\ Len(headers[1].value) = 8
  /\ out[1].value = Stars
  /\ headers[2].name = <<"X", "-", "A", "u", "t", "h", "-", "T", "O", "K", "E", "N">>
  /\ out[2].value = <<"B", "e", "a", "r", "*", "*", "*", "*", "m", "n", "o", "p">>


\* the call of fetch the handler made
LastCall == fetched[Len(fetched)]

\* the first n entries of a history
FirstEntries(stored, n) == SubSeq(stored, 1, IF Len(stored) < n THEN Len(stored) ELSE n)

\* C17: an execution that got a response (of any status) has put exactly one
\* new entry in front of the history that was there, with the masked form of
\* the headers sent and the status, statusText, body and contentType of the
\* response; an execution whose fetch failed leaves the history as it was.
C17_HistoryRecorded ==
  /\ op \in {"responded", "unreadable"} =>
       /\ history # <<>>
       /\ history[1].url = LastCall.url
       /\ history[1].headers = maskSensitiveHeaders(LastCall.headers)
       /\ history[1].response.status = out.status
       /\ history[1].response.statusText = out.statusText
       /\ history[1].response.contentType = out.contentType
       /\ history[1].response.body = responseText(out)
       /\ Tail(history) = FirstEntries(previous.history, MAX_HISTORY_ENTRIES - 1)
  /\ op = "failed" => history = previous.history

\* the options generateCurl gets for the values of the form
OptionsOfForm ==
  [options EXCEPT !.authToken = activeToken(options, form),
                  !.paramValues = form.paramValues,
                  !.bodyJson = OrElse(getEffectiveBody(form), Undefined)]

\* the form has a value for the parameter
HasValue(param) == Truthy(Lookup(form.paramValues, param.name))

\* generateCurl emits no placeholder for the form: every path parameter and
\* every required query or header parameter has a value, and a token is at
\* hand when the endpoint asks for authentication
NoPlaceholder ==
  /\ \A i \in 1..Len(endpoint.parameters) :
       LET param == endpoint.parameters[i]
       IN \/ param.in = "path"
          \/ (param.in \in {"query", "header"} /\ param.required)
          => HasValue(param)
  /\ Truthy(activeToken(options, form)) \/ ~endpoint.hasAuth

\* the parts of the cURL command for the form
FormCurlParts == curlParts(endpoint, OptionsOfForm)

\* the url of the cURL command for the form
FormCurlUrl ==
  SubSeq(FormCurlParts[Len(FormCurlParts)], 2, Len(FormCurlParts[Len(FormCurlParts)]) - 1)

\* the -H tokens of the cURL command for the form
FormCurlHeaders ==
  {FormCurlParts[i] : i \in {j \in 1..Len(FormCurlParts) : MatchAt(FormCurlParts[j], DashH, 1)}}

\* the headers of a call of fetch, as -H tokens
CallHeaders(call) ==
  {HeaderToken(call.headers[i].name, call.headers[i].value) : i \in 1..Len(call.headers)}

\* C18: when generateCurl emits no placeholder, the url given to fetch is the
\* url of the cURL command and the request headers are the -H headers of
\* the command, whatever the authentication settings (authType left
\* undefined included).
C18_LiveMatchesCurl ==
  (op = "fetching" /\ NoPlaceholder) =>
    /\ LastCall.url = FormCurlUrl
    /\ CallHeaders(LastCall) = FormCurlHeaders

\* the url holds the placeholder of a path parameter of the endpoint
HoldsPlaceholder(url) ==
  \E i \in 1..Len(endpoint.parameters) :
    /\ endpoint.parameters[i].in = "path"
    /\ Includes(url, Brace(endpoint.parameters[i].name))

\* C19: no call of fetch has a url with an unresolved {name} placeholder, and
\* fetch is not called while a path parameter or a required parameter has
\* no value.
C19_NoUnresolvedPlaceholder ==
  \A i \in 1..Len(fetched) :
    /\ ~HoldsPlaceholder(fetched[i].url)
    /\ \A p \in 1..Len(endpoint.parameters) :
         LET param == endpoint.parameters[p]
         IN (param.in = "path" \/ (param.in \in {"query", "header"} /\ param.required))
            => HasValue(param)

\* the effective body of a form as the claim has it: the raw JSON when there
\* is some, else the body built from the body-parameter fields
EffectiveBody(f) ==
  IF Trim(f.bodyJson) # <<>> THEN Trim(f.bodyJson) ELSE buildBodyFromParams(f)

\* the effective body is not empty and is not JSON
InvalidBody(f) == EffectiveBody(f) # <<>> /\ ~JsonParses(EffectiveBody(f))

\* C20: executeRequest on a form whose effective body is not empty and not
\* JSON is refused: fetch is not called, the history and the form (loading
\* and response state included) stay as they were; copying the command of
\* such a form still gives a command, with the body in its -d token when
\* the endpoint takes a body.
C20_InvalidBodyRefused ==
  /\ (op \in {"refused", "fetching"} /\ InvalidBody(previous.form)) =>
       /\ op = "refused"
       /\ fetched = <<>>
       /\ history = previous.history
       /\ form = previous.form
       /\ toast = Toast("Failure", "Invalid JSON")
  /\ (op = "copied" /\ InvalidBody(form)) =>
       /\ MatchAt(out, CurlWord, 1)
       /\ hasBody(endpoint) =>
            Includes(out, DashD \o ReplaceAllChar(EffectiveBody(form), "'", EscapedQuote)
                          \o <<"'">>)

\* C20 witness: a request with the raw body `{a` was refused while the
\* history was full and a response was shown
C20_Witness ==
  /\ op = "refused"
  /\ form.bodyJson = <<"{", "a">>
  /\ Len(history) = MAX_HISTORY_ENTRIES
  /\ form.response = ShownResponse
  /\ hasBody(endpoint)

\* C20, the generator: the command of a form with the raw body it's was
\* copied after the request was refused
C20_CopiedReached ==
  /\ op = "copied"
  /\ toast = Toast("Success", "Copied to clipboard")
  /\ form.bodyJson = <<"i", "t", "'", "s">>
  /\ hasBody(endpoint)


\* the calls of the behaviour were made one at a time
OneAtATime == op \in {"history", "addRequestToHistory", "deleteRequestHistoryEntry",
                      "clearRequestHistory"} /\ ~previous.overlapped

\* the entries are in order of creation, the most recent first
MostRecentFirst(stored) ==
  \A i, j \in 1..Len(stored) : i < j => stored[i].id > stored[j].id

\* C24: after calls of addRequestToHistory, deleteRequestHistoryEntry and
\* clearRequestHistory made one at a time the stored history has at most
\* 100 entries, the most recent first; a finished add has put its entry at
\* index 0 in front of the list that was stored, cut at the tail to 100.
C24_HistoryBounded ==
  OneAtATime =>
    /\ Len(history) <= MAX_HISTORY_ENTRIES
    /\ MostRecentFirst(history)
    /\ (op = "addRequestToHistory" /\ calls = <<>>) =>
         /\ history[1] = out
         /\ out.id = clock
         /\ Tail(history) = FirstEntries(previous.history, MAX_HISTORY_ENTRIES - 1)

\* C24 witness: an add on a full history, made after another call returned
C24_Witness ==
  /\ OneAtATime
  /\ op = "addRequestToHistory"
  /\ calls = <<>>
  /\ Len(previous.history) = MAX_HISTORY_ENTRIES
  /\ Len(history) = MAX_HISTORY_ENTRIES
  /\ history[1].id = clock
  /\ clock > MAX_HISTORY_ENTRIES + 1
  /\ history[MAX_HISTORY_ENTRIES].id = previous.history[MAX_HISTORY_ENTRIES - 1].id

\* every call made so far was an addRequestToHistory that has returned
OnlyAddsReturned ==
  /\ op \in {"history", "addRequestToHistory"}
  /\ calls = <<>>
  /\ clock - MAX_HISTORY_ENTRIES = previous.made

\* C25: when addRequestToHistory calls have returned, in flight together or
\* not, the stored history holds the entry of every one of them.
C25_NoLostUpdate ==
  OnlyAddsReturned =>
    \A id \in (MAX_HISTORY_ENTRIES + 1)..clock :
      \E i \in 1..Len(history) : history[i].id = id

\* the same, for calls made one at a time
C25_HoldsOneAtATime ==
  (OnlyAddsReturned /\ ~previous.overlapped) =>
    \A id \in (MAX_HISTORY_ENTRIES + 1)..clock :
      \E i \in 1..Len(history) : history[i].id = id

\* C26: the headers stored in the history by a live execution hold no value
\* with the complete token in it, whatever the token and the authType.
C26_TokenNotStored ==
  (op = "responded" /\ Truthy(activeToken(options, form))) =>
    \A h \in 1..Len(history[1].headers) :
      ~Includes(history[1].headers[h].value, activeToken(options, form))

\* the same for Authorization headers of tokens longer than four characters
C26_HoldsForLongBearer ==
  (op = "responded" /\ Len(activeToken(options, form)) > 4) =>
    \A h \in 1..Len(history[1].headers) :
      history[1].headers[h].name = Authorization =>
        ~Includes(history[1].headers[h].value, activeToken(options, form))

\* the request body declares a media type
DeclaresContent ==
  /\ endpoint.requestBody.present
  /\ endpoint.requestBody.hasContent
  /\ endpoint.requestBody.content # <<>>

\* the entry of the media type getRequestBodyContentType reports
ReportedEntry ==
  LET content == endpoint.requestBody.content
  IN content[CHOOSE n \in 1..Len(content) :
               content[n].key = getRequestBodyContentType(endpoint)]

\* the endpoint with the reported media type as the only one it declares
ReportedOnly == [endpoint EXCEPT !.requestBody.content = <<ReportedEntry>>]

\* the body parameters are those of the schema of the reported media type
C27_BodyParamsOfReported ==
  (op = "getBodyParams" /\ DeclaresContent) => out = getBodyParams(ReportedOnly)

\* the example body is the one of the schema of the reported media type
C27_ExampleOfReported ==
  (op = "generateCurl" /\ DeclaresContent /\ EmitsBody
     /\ ~Truthy(options.bodyJson) /\ options.includeExampleBody) =>
    /\ DataToken = DashD \o ClaimedExampleBody(ReportedEntry.schema) \o <<"'">>
    /\ \E i \in 1..Len(parts) :
         parts[i] = DashH \o ContentTypeColon \o getRequestBodyContentType(endpoint) \o <<"\"">>

\* C27: for an endpoint whose request body declares media types, the schema
\* getBodyParams describes and the schema generateExampleBody synthesizes the
\* body from are the schema of the media type getRequestBodyContentType
\* reports, which is the Content-Type header of the command.
C27_SameMediaType == C27_BodyParamsOfReported /\ C27_ExampleOfReported

\* C21: when the add form fails, at the resolution of the document or at a
\* later step, the stored specs and the cache are what they were when the
\* form was submitted.
C21_FailedAddCommitsNothing ==
  (op = "onSubmit" /\ calls = <<>> /\ "failed" \in DOMAIN out) =>
    /\ specs = previous.specs
    /\ cache = previous.cache

\* the same for the failures up to the write of the cache
C21_HoldsBeforeCacheWrite ==
  (op = "onSubmit" /\ calls = <<>> /\ "failed" \in DOMAIN out
     /\ out.failed \in {"resolve", "name", "cacheSpec"}) =>
    /\ specs = previous.specs
    /\ cache = previous.cache

\* C23: deleteSpec(id) for a stored id has removed the record, then the
\* cache entry, and returned true, every other record and cache entry, the
\* tokens and the history being as they were; for an id that is not stored
\* it has returned false and written nothing.
C23_DeleteSpecFrame ==
  /\ (op = "deleteSpec" /\ calls = <<>> /\ "returned" \in DOMAIN out) =>
       /\ out.returned <=> \E i \in 1..Len(previous.specs) : previous.specs[i].id = out.id
       /\ specs = SelectSeq(previous.specs, LAMBDA r : r.id # out.id)
       /\ DOMAIN cache = DOMAIN previous.cache \ {out.id}
       /\ \A k \in DOMAIN cache : cache[k] = previous.cache[k]
       /\ tokens = previous.tokens
       /\ history = previous.history
  /\ (calls # <<>> /\ calls[1].fn = "deleteSpec" /\ calls[1].pc = "removeCache") =>
       /\ \A i \in 1..Len(specs) : specs[i].id # calls[1].arg
       /\ Len(specs) < Len(previous.specs)
       /\ cache = previous.cache

\* C23 witness: of two stored specs with cached documents the first was deleted
C23_Witness ==
  /\ op = "deleteSpec" /\ calls = <<>>
  /\ out = [id |-> 1, returned |-> TRUE]
  /\ Len(previous.specs) = 2
  /\ DOMAIN previous.cache = {1, 2}
  /\ Len(specs) = 1 /\ specs[1].id = 2
  /\ DOMAIN cache = {2}
  /\ tokens # <<>> /\ history # <<>>

\* C23, the id that is not stored
C23_AbsentReached ==
  /\ op = "deleteSpec" /\ calls = <<>>
  /\ out = [id |-> 0, returned |-> FALSE]
  /\ specs # <<>>

\* the url can be fetched: it is not a pasted: pseudo-url
IsFetchable(url) == ~MatchAt(url, PastedPrefix, 1)

\* C29: every stored spec whose url cannot be fetched has a cached document
\* under its id.
C29_PastedSpecsCached ==
  \A i \in 1..Len(specs) :
    ~IsFetchable(specs[i].url) => specs[i].id \in DOMAIN cache

\* the record the add form has just stored has its cached document
C29_HoldsForAddedSpec ==
  (op = "onSubmit" /\ calls = <<>> /\ "added" \in DOMAIN out) =>
    /\ out.added.id \in DOMAIN cache
    /\ IsOpenApiDocument(cache[out.added.id])

\* the stored tokens whose default spec is the spec
TokensOf(specId) == {tokens[k] : k \in {j \in DOMAIN tokens : tokens[j].defaultSpecId = specId}}

\* C30: after setToken(t) of the hook with a t that is not empty,
\* getTokenForSpec(spec.id) returns t; and of the stored tokens of a spec
\* the one saved last is the one getTokenForSpec returns.
C30_SetTokenIsReturned ==
  /\ (op = "setToken" /\ out.token # Undefined /\ out.token # <<>>) =>
       /\ getTokenForSpec(tokens, hook.specId) = out.token
       /\ hook.token = out.token
  /\ op \in {"saveToken", "updateToken", "deleteToken", "setToken"} =>
       \A specId \in TokenSpecIds :
         IF TokensOf(specId) = {} THEN getTokenForSpec(tokens, specId) = Undefined
         ELSE \E t \in TokensOf(specId) :
                /\ \A u \in TokensOf(specId) : u.createdAt <= t.createdAt
                /\ getTokenForSpec(tokens, specId) = t.token

\* C30 witness: setToken saved a token for a spec that had two stored
\* tokens with other values, after saves, updates or deletes
C30_Witness ==
  /\ op = "setToken" /\ out.token = CustomToken
  /\ previous.made = MaxOps
  /\ Cardinality(TokensOf(hook.specId)) >= 3
  /\ \E t \in TokensOf(hook.specId) : t.token # out.token
  /\ \E k \in DOMAIN tokens : tokens[k].defaultSpecId # hook.specId

\* no two stored tokens have the same creation time
C30_CreatedAtDistinct ==
  op \in {"tokens", "saveToken", "updateToken", "deleteToken", "setToken"} =>
    \A j, k \in DOMAIN tokens : tokens[j].createdAt = tokens[k].createdAt => j = k

\* every load started has finished
AllLoadsDone == calls # <<>> /\ \A i \in 1..Len(calls) : calls[i].pc = "done"

\* the loads that fetched a document that passed the validation
Fetchers(id) ==
  {i \in 1..Len(calls) : calls[i].arg.spec.id = id /\ calls[i].local.fetched # NoDocument}

\* the load is the only one of its view
OnlyLoadOfView(k) ==
  \A l \in 1..Len(calls) : calls[l].arg.view = calls[k].arg.view => l = k

\* C22: when two loads of the same spec both found no cached document, each
\* fetches and writes the cache; after the loads have finished the cached
\* document of the spec is a validated document that one of them fetched,
\* and each view shows the validated document its load fetched.
C22_ConcurrentLoadsBenign ==
  \A i, j \in 1..Len(calls) :
    ( /\ i < j
      /\ calls[i].arg.spec.id = calls[j].arg.spec.id
      /\ {i, j} \subseteq Fetchers(calls[i].arg.spec.id)
      /\ AllLoadsDone ) =>
    LET id == calls[i].arg.spec.id
    IN /\ id \in DOMAIN cache
       /\ cache[id] \in {calls[k].local.fetched : k \in Fetchers(id)}
       /\ IsOpenApiDocument(cache[id])
       /\ cache[id].hasPaths /\ (cache[id].openapi \/ cache[id].swagger)
       /\ \A k \in {i, j} :
            OnlyLoadOfView(k) =>
              /\ hook[calls[k].arg.view].openApiSpec = calls[k].local.fetched
              /\ hook[calls[k].arg.view].openApiSpec.hasPaths
              /\ hook[calls[k].arg.view].openApiSpec.openapi
                   \/ hook[calls[k].arg.view].openApiSpec.swagger
              /\ ~hook[calls[k].arg.view].isLoading

\* C22 witness: two views of the same uncached spec have fetched different
\* documents, and the cache holds the one of the load that started first
C22_Witness ==
  /\ Len(calls) = 2 /\ AllLoadsDone
  /\ calls[1].arg.spec.id = 1 /\ calls[2].arg.spec.id = 1
  /\ calls[1].arg.view # calls[2].arg.view
  /\ calls[1].local.fetched.rev = 11 /\ calls[2].local.fetched.rev = 12
  /\ cache[1].rev = 11
  /\ hook[2].openApiSpec.rev = 12

\* the last load started in the view
LastLoadOf(v) ==
  CHOOSE i \in 1..Len(calls) :
    /\ calls[i].arg.view = v
    /\ \A j \in 1..Len(calls) : calls[j].arg.view = v => j <= i

\* the view has the document, the endpoints and the token of its last load
ShowsLastLoad(v) ==
  /\ hook[v].openApiSpec = calls[LastLoadOf(v)].local.loadedSpec
  /\ hook[v].endpoints = endpointsOf(calls[LastLoadOf(v)].local.loadedSpec)
  /\ hook[v].token = getTokenForSpec(tokens, hook[v].spec.id)
  /\ hook[v].openApiSpec \in DocsServedAt(hook[v].spec.url)

\* C28: once all loads have finished, a view whose spec changed while a
\* load was in flight has the document, the endpoints and the token of the
\* spec it was given last, if the load of that spec did not fail.
C28_NoStaleOverwrite ==
  AllLoadsDone =>
    \A v \in 1..Len(hook) :
      calls[LastLoadOf(v)].local.loadedSpec # NoDocument => ShowsLastLoad(v)

\* the same when no load was started while another was in flight
C28_HoldsWithoutOverlap ==
  (AllLoadsDone /\ \A i \in 1..Len(calls) : ~calls[i].local.overlaps) =>
    \A v \in 1..Len(hook) :
      calls[LastLoadOf(v)].local.loadedSpec # NoDocument => ShowsLastLoad(v)

====
